---- MODULE Spec2Model ----
(***************************************************************************)
(* Model of the mcmod CLI (cli/src): the `add` feature engine, the         *)
(* settings.gradle / gradle.properties patcher and the Kotlin migration.   *)
(*                                                                         *)
(* Text is a sequence of atoms.  An atom is a chunk of characters that the *)
(* code never looks inside ("fabric", "include(", "\n", ...), so prefix,   *)
(* substring, split and trim tests on atom sequences behave as the Rust    *)
(* string functions do on the text the atoms spell.                        *)
(*                                                                         *)
(* File operations are steps: each one either takes effect completely or   *)
(* fails with an I/O error and no effect; a process can also be killed     *)
(* between two file operations.                                            *)
(***************************************************************************)
EXTENDS Integers, Sequences, FiniteSets, TLC

(***************************************************************************)
(* Bounds                                                                  *)
(***************************************************************************)
\* how many file operations may fail, or processes be killed, in one run
MaxFaults == 1
\* how many lines an enumerated settings.gradle has at most
MaxLines == 3
\* how many patcher calls are made on one text
MaxPatches == 2
\* how many lines an enumerated gradle.properties has at most
MaxPropLines == 3

(***************************************************************************)
(* Strings                                                                 *)
(***************************************************************************)
NL == "\n"
CR == "\r"
SP == " "

IsWhite(a) == a \in {SP, CR, NL}

StartsWith(s, pre) ==
    /\ Len(pre) <= Len(s)
    /\ SubSeq(s, 1, Len(pre)) = pre

EndsWith(s, suf) ==
    /\ Len(suf) <= Len(s)
    /\ SubSeq(s, Len(s) - Len(suf) + 1, Len(s)) = suf

\* str::contains
Contains(s, sub) ==
    \E i \in 1..(Len(s) - Len(sub) + 1) : SubSeq(s, i, i + Len(sub) - 1) = sub

RECURSIVE TrimStart(_)
TrimStart(s) ==
    IF s # <<>> /\ IsWhite(Head(s)) THEN TrimStart(Tail(s)) ELSE s

RECURSIVE TrimEnd(_)
TrimEnd(s) ==
    IF s # <<>> /\ IsWhite(s[Len(s)]) THEN TrimEnd(SubSeq(s, 1, Len(s) - 1)) ELSE s

\* str::trim
Trim(s) == TrimEnd(TrimStart(s))

\* str::trim_start_matches: strips every leading repetition of the prefix
RECURSIVE TrimStartMatches(_, _)
TrimStartMatches(s, pre) ==
    IF pre # <<>> /\ StartsWith(s, pre)
    THEN TrimStartMatches(SubSeq(s, Len(pre) + 1, Len(s)), pre)
    ELSE s

\* position of the first occurrence of atom a in s, 0 when there is none
RECURSIVE IndexOf(_, _, _)
IndexOf(s, a, from) ==
    IF from > Len(s) THEN 0
    ELSE IF s[from] = a THEN from
    ELSE IndexOf(s, a, from + 1)

\* str::split on one character: "a,,b" gives a, "", b and "" gives ""
RECURSIVE Split(_, _)
Split(s, sep) ==
    LET i == IndexOf(s, sep, 1)
    IN  IF i = 0 THEN <<s>>
        ELSE <<SubSeq(s, 1, i - 1)>> \o Split(SubSeq(s, i + 1, Len(s)), sep)

\* str::lines: split at "\n", drop one "\r" before it, no final empty line
RECURSIVE Lines(_)
Lines(s) ==
    LET StripCR(l) == IF l # <<>> /\ l[Len(l)] = CR
                      THEN SubSeq(l, 1, Len(l) - 1) ELSE l
        i == IndexOf(s, NL, 1)
    IN  IF s = <<>> THEN <<>>
        ELSE IF i = 0 THEN <<s>>
        ELSE <<StripCR(SubSeq(s, 1, i - 1))>> \o Lines(SubSeq(s, i + 1, Len(s)))

\* [String]::join
RECURSIVE Join(_, _)
Join(ls, sep) ==
    IF ls = <<>> THEN <<>>
    ELSE IF Len(ls) = 1 THEN ls[1]
    ELSE ls[1] \o sep \o Join(Tail(ls), sep)

\* Vec::insert(idx, x) with idx counted from 0
InsertAt(ls, idx, x) ==
    SubSeq(ls, 1, idx) \o <<x>> \o SubSeq(ls, idx + 1, Len(ls))

\* position that overshoots the matching line by one (faulty variant)
RECURSIVE PositionPastMatch(_, _, _)
PositionPastMatch(ls, pre, i) ==
    IF i > Len(ls) THEN Len(ls)
    ELSE IF StartsWith(Trim(ls[i]), pre) THEN i
    ELSE PositionPastMatch(ls, pre, i + 1)

\* iter().position(pred) over the lines, 0-based; Len(ls) stands for None
RECURSIVE PositionFrom(_, _, _)
PositionFrom(ls, pre, i) ==
    IF i > Len(ls) THEN Len(ls)
    ELSE IF StartsWith(Trim(ls[i]), pre) THEN i - 1
    ELSE PositionFrom(ls, pre, i + 1)

(***************************************************************************)
(* gradle.rs                                                               *)
(***************************************************************************)
IncludeLine(module) == <<"include(", "\"">> \o module \o <<"\"", ")">>

\* the lines joined and nothing put back (faulty variant)
RejoinBare(content, lines) == Join(lines, <<NL>>)

\* the rewritten text: the lines joined, with the final newline put back
Rejoin(content, lines) ==
    LET result == Join(lines, <<NL>>)
    IN  IF EndsWith(content, <<NL>>) /\ ~EndsWith(result, <<NL>>)
        THEN result \o <<NL>> ELSE result

\* the loop keeping the first include( line it meets (faulty variant)
FirstIncludeIdx(lines) ==
    LET hits == {i \in 1..Len(lines) : StartsWith(Trim(lines[i]), <<"include(">>)}
    IN  IF hits = {} THEN 0 ELSE CHOOSE i \in hits : \A j \in hits : i <= j

\* index (1-based) of the last line whose trimmed text starts with include(
LastIncludeIdx(lines) ==
    LET hits == {i \in 1..Len(lines) : StartsWith(Trim(lines[i]), <<"include(">>)}
    IN  IF hits = {} THEN 0 ELSE CHOOSE i \in hits : \A j \in hits : j <= i

\* add_include_to_settings without its "already present" test (faulty variant)
AddIncludeUnconditional(content, module) ==
    LET lines == Lines(content)
        last == LastIncludeIdx(lines)
        rp_idx == PositionFrom(lines, <<"rootProject.name">>, 1)
        inserted == IF last # 0 THEN InsertAt(lines, last, IncludeLine(module))
                    ELSE InsertAt(lines, rp_idx, IncludeLine(module))
    IN  [wrote |-> TRUE, content |-> Rejoin(content, inserted)]

\* add_include_to_settings: wrote is FALSE when the file is left alone
AddIncludeToSettings(content, module) ==
    LET include_line == IncludeLine(module)
        lines == Lines(content)
        last == LastIncludeIdx(lines)
        rp_idx == PositionFrom(lines, <<"rootProject.name">>, 1)
        inserted == IF last # 0 THEN InsertAt(lines, last, include_line)
                    ELSE InsertAt(lines, rp_idx, include_line)
    IN  IF Contains(content, include_line)
        THEN [wrote |-> FALSE, content |-> content]
        ELSE [wrote |-> TRUE, content |-> Rejoin(content, inserted)]

EP == <<"enabled_platforms", "=">>

\* index (1-based) of the first line that starts with the prefix, 0 if none
RECURSIVE FirstLineWith(_, _, _)
FirstLineWith(lines, pres, i) ==
    IF i > Len(lines) THEN 0
    ELSE IF \E pre \in pres : StartsWith(lines[i], pre) THEN i
    ELSE FirstLineWith(lines, pres, i + 1)

\* the tokens of an enabled_platforms= line
PlatformTokens(line) ==
    LET current == TrimStartMatches(line, EP)
        parts == Split(current, ",")
    IN  [i \in 1..Len(parts) |-> Trim(parts[i])]

InSeq(x, s) == \E i \in 1..Len(s) : s[i] = x

\* add_platform_to_gradle_properties setting the value instead of adding to
\* it (faulty variant)
AddPlatformOverwriting(content, platform) ==
    LET lines == Lines(content)
        i == FirstLineWith(lines, {EP}, 1)
        patched == IF i = 0 THEN lines
                   ELSE [lines EXCEPT ![i] = EP \o platform]
    IN  Rejoin(content, patched)

\* add_platform_to_gradle_properties: the file is always rewritten
AddPlatformToGradleProperties(content, platform) ==
    LET lines == Lines(content)
        i == FirstLineWith(lines, {EP}, 1)
        platforms == PlatformTokens(lines[i])
        new_line == EP \o Join(Append(platforms, platform), <<",">>)
        patched == IF i = 0 \/ InSeq(platform, platforms) THEN lines
                   ELSE [lines EXCEPT ![i] = new_line]
    IN  Rejoin(content, patched)

\* set_gradle_property
SetGradleProperty(content, key, value) ==
    LET lines == Lines(content)
        prefix == key \o <<"=">>
        commented_prefix == <<"#", SP>> \o key \o <<"=">>
        new_line == key \o <<"=">> \o value
        i == FirstLineWith(lines, {prefix, commented_prefix}, 1)
        patched == IF i # 0 THEN [lines EXCEPT ![i] = new_line]
                   ELSE Append(lines, new_line)
    IN  Rejoin(content, patched)

(***************************************************************************)
(* util.rs                                                                 *)
(***************************************************************************)
\* char::to_uppercase on the letters a mod id is made of
Upper(c) ==
    CASE c = "m" -> "M"
      [] c = "y" -> "Y"
      [] OTHER -> c

NonEmpty(s) == s # <<>>

RECURSIVE Concat(_)
Concat(ss) == IF ss = <<>> THEN <<>> ELSE Head(ss) \o Concat(Tail(ss))

\* to_pascal_case: split at '_', drop empty parts, capitalise each part
ToPascalCase(s) ==
    LET parts == SelectSeq(Split(s, "_"), NonEmpty)
        Cap(part) == <<Upper(Head(part))>> \o Tail(part)
    IN  Concat([i \in 1..Len(parts) |-> Cap(parts[i])])

\* derive_class_name
DeriveClassName(mod_id) == ToPascalCase(mod_id) \o <<"Mod">>

\* package_to_path: every '.' becomes '/'
PackageToPath(pkg) == [i \in 1..Len(pkg) |-> IF pkg[i] = "." THEN "/" ELSE pkg[i]]

(***************************************************************************)
(* Paths and the disk                                                      *)
(***************************************************************************)
\* A path is the sequence of its components below "/"; a component is text.
\* The project directory (the `dir` argument) is /proj.
ProjectDir == << <<"proj">> >>

\* Path::join with a relative path given as text: components split at '/'
PathJoin(dir, rel) == dir \o SelectSeq(Split(rel, "/"), NonEmpty)

HasParent(path) == path # <<>>
Parent(path) == SubSeq(path, 1, Len(path) - 1)
ProperAncestors(path) == {SubSeq(path, 1, k) : k \in 0..(Len(path) - 1)}

\* disk = [files |-> function from path to content, dirs |-> set of paths]
PathExists(d, path) == path \in DOMAIN d.files \/ path \in d.dirs

\* DirIsEmpty looking at files only (faulty variant)
DirHoldsNoFile(d, path) == \A f \in DOMAIN d.files : Parent(f) # path

\* read_dir(path).next().is_none()
DirIsEmpty(d, path) ==
    /\ \A f \in DOMAIN d.files : Parent(f) # path
    /\ \A g \in d.dirs : g = <<>> \/ Parent(g) # path

\* ensure_dir: create_dir_all when the path does not exist
EnsureDir(d, path) ==
    IF PathExists(d, path) THEN d
    ELSE [d EXCEPT !.dirs = @ \cup {path} \cup ProperAncestors(path)]

\* std::fs::write on an existing directory
PutFile(d, path, content) ==
    [d EXCEPT !.files = [q \in DOMAIN @ \cup {path} |->
                            IF q = path THEN content ELSE @[q]]]

\* write_file: parent directories first, then the file
WriteFile(d, path, content) ==
    PutFile(IF HasParent(path) THEN EnsureDir(d, Parent(path)) ELSE d,
            path, content)

\* std::fs::remove_file
RemoveFile(d, path) ==
    [d EXCEPT !.files = [q \in DOMAIN @ \ {path} |-> @[q]]]

\* std::fs::remove_dir
RemoveDir(d, path) == [d EXCEPT !.dirs = @ \ {path}]

(***************************************************************************)
(* config.rs                                                               *)
(***************************************************************************)
CONFIG_FILE == <<"mcmod.toml">>
ConfigPath(dir) == PathJoin(dir, CONFIG_FILE)
SettingsPath(dir) == PathJoin(dir, <<"settings.gradle">>)
PropertiesPath(dir) == PathJoin(dir, <<"gradle.properties">>)

\* the three files the handlers patch or save, and the part of a disk that
\* holds them
PatchedFiles ==
    {ConfigPath(ProjectDir), SettingsPath(ProjectDir), PropertiesPath(ProjectDir)}

Patched(d) == [path \in PatchedFiles \cap DOMAIN d.files |-> d.files[path]]

PatchedPart(d) == [files |-> Patched(d), dirs |-> {}]

NoDisk == [files |-> <<>>, dirs |-> {}]

\* McmodConfig::new
NewConfig(mod_id, mod_name, package, author, description, language, fabric, neoforge, ci, versions) ==
    [mod_info |-> [mod_id |-> mod_id, mod_name |-> mod_name,
                   package |-> package, author |-> author,
                   description |-> description, language |-> language],
     loaders |-> [fabric |-> fabric, neoforge |-> neoforge],
     features |-> [ci |-> ci],
     versions |-> versions]

\* Versions::default
DefaultVersions ==
    [minecraft |-> <<"1.21.4">>, fabric_loader |-> <<"0.16.9">>,
     fabric_api |-> <<"0.111.0+1.21.4">>, neoforge |-> <<"21.4.156">>]

\* McmodConfig::enabled_platforms
EnabledPlatforms(config) ==
    (IF config.loaders.fabric THEN << <<"fabric">> >> ELSE <<>>)
    \o (IF config.loaders.neoforge THEN << <<"neoforge">> >> ELSE <<>>)

\* toml::to_string_pretty of the derived Serialize: one table per group,
\* one key per field, in declaration order
ToToml(c) ==
    << <<"[mod_info]">>,
       <<"mod_id", c.mod_info.mod_id>>,
       <<"mod_name", c.mod_info.mod_name>>,
       <<"package", c.mod_info.package>>,
       <<"author", c.mod_info.author>>,
       <<"description", c.mod_info.description>>,
       <<"language", c.mod_info.language>>,
       <<"[loaders]">>,
       <<"fabric", c.loaders.fabric>>,
       <<"neoforge", c.loaders.neoforge>>,
       <<"[features]">>,
       <<"ci", c.features.ci>>,
       <<"[versions]">>,
       <<"minecraft", c.versions.minecraft>>,
       <<"fabric_loader", c.versions.fabric_loader>>,
       <<"fabric_api", c.versions.fabric_api>>,
       <<"neoforge", c.versions.neoforge>> >>

\* the value of a key among the rows that follow a table header
RECURSIVE TomlValue(_, _, _)
TomlValue(t, i, key) ==
    IF t[i][1] = key THEN t[i][2] ELSE TomlValue(t, i + 1, key)

TomlGet(t, table, key) == TomlValue(t, IndexOf(t, <<table>>, 1) + 1, key)

\* (faulty variant) the group features is not read from the text
FromTomlFeaturesOff(t) ==
    LET Get(table, key) == TomlGet(t, table, key)
    IN  [mod_info |-> [mod_id |-> Get("[mod_info]", "mod_id"),
                       mod_name |-> Get("[mod_info]", "mod_name"),
                       package |-> Get("[mod_info]", "package"),
                       author |-> Get("[mod_info]", "author"),
                       description |-> Get("[mod_info]", "description"),
                       language |-> Get("[mod_info]", "language")],
         loaders |-> [fabric |-> Get("[loaders]", "fabric"),
                      neoforge |-> Get("[loaders]", "neoforge")],
         features |-> [ci |-> FALSE],
         versions |-> [minecraft |-> Get("[versions]", "minecraft"),
                       fabric_loader |-> Get("[versions]", "fabric_loader"),
                       fabric_api |-> Get("[versions]", "fabric_api"),
                       neoforge |-> Get("[versions]", "neoforge")]]
\* toml::from_str of the derived Deserialize: the value of a key is looked
\* up below the header of its table
FromToml(t) ==
    LET Get(table, key) == TomlGet(t, table, key)
    IN  [mod_info |-> [mod_id |-> Get("[mod_info]", "mod_id"),
                       mod_name |-> Get("[mod_info]", "mod_name"),
                       package |-> Get("[mod_info]", "package"),
                       author |-> Get("[mod_info]", "author"),
                       description |-> Get("[mod_info]", "description"),
                       language |-> Get("[mod_info]", "language")],
         loaders |-> [fabric |-> Get("[loaders]", "fabric"),
                      neoforge |-> Get("[loaders]", "neoforge")],
         features |-> [ci |-> Get("[features]", "ci")],
         versions |-> [minecraft |-> Get("[versions]", "minecraft"),
                       fabric_loader |-> Get("[versions]", "fabric_loader"),
                       fabric_api |-> Get("[versions]", "fabric_api"),
                       neoforge |-> Get("[versions]", "neoforge")]]

\* (faulty variant) a missing descriptor is taken for a fresh one
LoadConfigOrFresh(d, dir) ==
    IF ~PathExists(d, ConfigPath(dir))
    THEN <<NewConfig(<<"m", "_", "y">>, <<"My Mod">>, <<"com", ".", "my">>, <<"Author">>, <<"A Minecraft mod">>, <<"java">>, FALSE, FALSE, FALSE, DefaultVersions)>>
    ELSE <<FromToml(d.files[ConfigPath(dir)])>>
\* McmodConfig::load: <<>> stands for Err(ConfigNotFound)
LoadConfig(d, dir) ==
    IF ~PathExists(d, ConfigPath(dir)) THEN <<>>
    ELSE <<FromToml(d.files[ConfigPath(dir)])>>

\* McmodConfig::save
SaveConfig(d, dir, config) == PutFile(d, ConfigPath(dir), ToToml(config))

(***************************************************************************)
(* template.rs                                                             *)
(***************************************************************************)
\* build_vars: the variables that name files, and those the patched files
\* are rendered from
BuildVars(mod_id, package, class_name, language, enabled_platforms) ==
    [mod_id |-> mod_id,
     package |-> package,
     package_path |-> PackageToPath(package),
     class_name |-> class_name,
     language |-> language,
     enabled_platforms |-> enabled_platforms]

\* render: every {{key}} of the template replaced by the key's value.  The
\* text of a template other than settings.gradle and gradle.properties is
\* kept as the template's name and the values it was rendered with
Render(template, vars) == [template |-> template, vars |-> vars]

(***************************************************************************)
(* commands/add.rs: the file operations of each handler, in program order  *)
(***************************************************************************)
Txt(a) == <<a>>
SLASH == <<"/">>

OpWrite(path, content) == [op |-> "write", path |-> path, content |-> content]

\* build_vars_from_config
BuildVarsFromConfig(config) ==
    BuildVars(config.mod_info.mod_id,
              config.mod_info.package,
              DeriveClassName(config.mod_info.mod_id),
              config.mod_info.language,
              Join(EnabledPlatforms(config), <<",">>))

\* the (ext, source_dir) chosen from the language
SourceKind(language) ==
    IF language = <<"kotlin">> THEN [ext |-> "kt", source_dir |-> "kotlin"]
    ELSE [ext |-> "java", source_dir |-> "java"]

\* add_fabric_files
AddFabricFiles(dir, vars, language) ==
    LET k == SourceKind(language)
    IN  << OpWrite(PathJoin(dir, <<"fabric", "/", "build.gradle">>),
                   "TMPL_FABRIC_BUILD_GRADLE"),
           OpWrite(PathJoin(dir, <<"fabric", "/", "gradle.properties">>),
                   "TMPL_FABRIC_GRADLE_PROPS"),
           OpWrite(PathJoin(dir, <<"fabric", "/", "src", "/", "main", "/",
                                   k.source_dir, "/">>
                                 \o vars.package_path
                                 \o <<"/", "fabric", "/">>
                                 \o vars.class_name
                                 \o <<"Fabric", ".", k.ext>>),
                   Render(IF k.ext = "kt" THEN "TMPL_FABRIC_MOD_KT"
                          ELSE "TMPL_FABRIC_MOD_JAVA", vars)),
           OpWrite(PathJoin(dir, <<"fabric", "/", "src", "/", "main", "/",
                                   "resources", "/", "fabric.mod.json">>),
                   Render("TMPL_FABRIC_MOD_JSON", vars)),
           OpWrite(PathJoin(dir, <<"fabric", "/", "src", "/", "main", "/",
                                   "resources", "/">>
                                 \o vars.mod_id \o <<".mixins.json">>),
                   Render("TMPL_FABRIC_MIXINS_JSON", vars)),
           OpWrite(PathJoin(dir, <<"fabric", "/", "src", "/", "main", "/",
                                   "java", "/">>
                                 \o vars.package_path
                                 \o <<"/", "mixin", "/", "package-info.java">>),
                   Render("TMPL_FABRIC_MIXIN_PACKAGE_INFO", vars)) >>

\* add_neoforge_files
AddNeoforgeFiles(dir, vars, language) ==
    LET k == SourceKind(language)
    IN  << OpWrite(PathJoin(dir, <<"neoforge", "/", "build.gradle">>),
                   "TMPL_NEOFORGE_BUILD_GRADLE"),
           OpWrite(PathJoin(dir, <<"neoforge", "/", "gradle.properties">>),
                   "TMPL_NEOFORGE_GRADLE_PROPS"),
           OpWrite(PathJoin(dir, <<"neoforge", "/", "src", "/", "main", "/",
                                   k.source_dir, "/">>
                                 \o vars.package_path
                                 \o <<"/", "neoforge", "/">>
                                 \o vars.class_name
                                 \o <<"NeoForge", ".", k.ext>>),
                   Render(IF k.ext = "kt" THEN "TMPL_NEOFORGE_MOD_KT"
                          ELSE "TMPL_NEOFORGE_MOD_JAVA", vars)),
           OpWrite(PathJoin(dir, <<"neoforge", "/", "src", "/", "main", "/",
                                   "resources", "/", "META-INF", "/",
                                   "neoforge.mods.toml">>),
                   Render("TMPL_NEOFORGE_MODS_TOML", vars)) >>

\* add_ci_files
AddCiFiles(dir, vars) ==
    << OpWrite(PathJoin(dir, <<".github", "/", "workflows", "/", "build.yml">>),
               Render("TMPL_CI_BUILD_YML", vars)) >>

OpInclude(module) == [op |-> "include", module |-> module]
OpPlatform(platform) == [op |-> "platform", platform |-> platform]
OpSetProperty(key, value) == [op |-> "setprop", key |-> key, value |-> value]
OpSave(field) == [op |-> "save", field |-> field]

\* run_add_fabric saving the descriptor before it patches the two files
\* (faulty variant)
RunAddFabricStepsSaveFirst(dir, config) ==
    AddFabricFiles(dir, BuildVarsFromConfig(config), config.mod_info.language)
    \o << OpSave("fabric"),
          OpInclude(Txt("fabric")),
          OpPlatform(Txt("fabric")) >>

\* run_add_fabric without the include line in settings.gradle (faulty
\* variant)
RunAddFabricStepsNoInclude(dir, config) ==
    AddFabricFiles(dir, BuildVarsFromConfig(config), config.mod_info.language)
    \o << OpPlatform(Txt("fabric")),
          OpSave("fabric") >>

\* run_add_fabric after its guard
RunAddFabricSteps(dir, config) ==
    AddFabricFiles(dir, BuildVarsFromConfig(config), config.mod_info.language)
    \o << OpInclude(Txt("fabric")),
          OpPlatform(Txt("fabric")),
          OpSave("fabric") >>

\* run_add_neoforge writing the Java source whatever the descriptor's
\* language is (faulty variant)
RunAddNeoforgeStepsJava(dir, config) ==
    AddNeoforgeFiles(dir, BuildVarsFromConfig(config), <<"java">>)
    \o << OpInclude(Txt("neoforge")),
          OpPlatform(Txt("neoforge")),
          OpSave("neoforge") >>

\* run_add_neoforge after its guard
RunAddNeoforgeSteps(dir, config) ==
    AddNeoforgeFiles(dir, BuildVarsFromConfig(config), config.mod_info.language)
    \o << OpInclude(Txt("neoforge")),
          OpPlatform(Txt("neoforge")),
          OpSave("neoforge") >>

\* run_add_ci registering ci as a platform, as the loader handlers do
\* (faulty variant)
RunAddCiStepsRegistering(dir, config) ==
    AddCiFiles(dir, BuildVarsFromConfig(config))
    \o << OpPlatform(Txt("ci")), OpSave("ci") >>

\* run_add_ci after its guard
RunAddCiSteps(dir, config) ==
    AddCiFiles(dir, BuildVarsFromConfig(config)) \o << OpSave("ci") >>

\* migrate_to_kotlin without the write of the marker file (faulty variant)
MigrateToKotlinNoMarker(dir, module, source_package_path, source_class_name, kt_template, vars, mixin_info) ==
    LET java_dir == module \o <<"/", "src", "/", "main", "/", "java", "/">>
                    \o source_package_path
    IN  << [op |-> "remove_java",
            path |-> PathJoin(dir, java_dir \o SLASH \o source_class_name
                                   \o <<".", "java">>),
            cleanup |-> PathJoin(dir, java_dir)],
           OpWrite(PathJoin(dir, module
                                 \o <<"/", "src", "/", "main", "/", "kotlin", "/">>
                                 \o source_package_path \o SLASH
                                 \o source_class_name \o <<".", "kt">>),
                   Render(kt_template, vars)) >>

\* migrate_to_kotlin; mixin_info is <<>> for None and <<package_path>> for Some
MigrateToKotlin(dir, module, source_package_path, source_class_name, kt_template, vars, mixin_info) ==
    LET java_dir == module \o <<"/", "src", "/", "main", "/", "java", "/">>
                    \o source_package_path
        java_path == PathJoin(dir, java_dir \o SLASH \o source_class_name
                                   \o <<".", "java">>)
        kt_path == PathJoin(dir, module
                                 \o <<"/", "src", "/", "main", "/", "kotlin", "/">>
                                 \o source_package_path \o SLASH
                                 \o source_class_name \o <<".", "kt">>)
    IN  << [op |-> "remove_java", path |-> java_path,
            cleanup |-> PathJoin(dir, java_dir)],
           OpWrite(kt_path, Render(kt_template, vars)) >>
        \o IF mixin_info = <<>> THEN <<>>
           ELSE << [op |-> "write_if_absent",
                    path |-> PathJoin(dir, module
                                 \o <<"/", "src", "/", "main", "/", "java", "/">>
                                 \o mixin_info[1]
                                 \o <<"/", "mixin", "/", "package-info.java">>),
                    content |-> Render("TMPL_FABRIC_MIXIN_PACKAGE_INFO", vars)] >>

\* run_add_kotlin naming the fabric class without its suffix (faulty variant)
RunAddKotlinStepsNoSuffix(dir, config) ==
    LET vars == BuildVarsFromConfig(config)
        package_path == PackageToPath(config.mod_info.package)
        class_name == DeriveClassName(config.mod_info.mod_id)
    IN  MigrateToKotlin(dir, Txt("common"), package_path, class_name,
                        "TMPL_COMMON_MOD_KT", vars, <<>>)
        \o (IF config.loaders.fabric
            THEN MigrateToKotlin(dir, Txt("fabric"),
                                 package_path \o <<"/", "fabric">>,
                                 class_name,
                                 "TMPL_FABRIC_MOD_KT", vars, <<package_path>>)
            ELSE <<>>)
        \o (IF config.loaders.neoforge
            THEN MigrateToKotlin(dir, Txt("neoforge"),
                                 package_path \o <<"/", "neoforge">>,
                                 class_name \o <<"NeoForge">>,
                                 "TMPL_NEOFORGE_MOD_KT", vars, <<>>)
            ELSE <<>>)
        \o << OpSetProperty(Txt("mod_language"), Txt("kotlin")),
              OpSetProperty(Txt("kotlin_version"), Txt("2.1.0")),
              OpSave("kotlin") >>

\* run_add_kotlin saving the descriptor before it patches gradle.properties
\* (faulty variant)
RunAddKotlinStepsSaveEarly(dir, config) ==
    LET vars == BuildVarsFromConfig(config)
        package_path == PackageToPath(config.mod_info.package)
        class_name == DeriveClassName(config.mod_info.mod_id)
    IN  MigrateToKotlin(dir, Txt("common"), package_path, class_name,
                        "TMPL_COMMON_MOD_KT", vars, <<>>)
        \o (IF config.loaders.fabric
            THEN MigrateToKotlin(dir, Txt("fabric"),
                                 package_path \o <<"/", "fabric">>,
                                 class_name \o <<"Fabric">>,
                                 "TMPL_FABRIC_MOD_KT", vars, <<package_path>>)
            ELSE <<>>)
        \o (IF config.loaders.neoforge
            THEN MigrateToKotlin(dir, Txt("neoforge"),
                                 package_path \o <<"/", "neoforge">>,
                                 class_name \o <<"NeoForge">>,
                                 "TMPL_NEOFORGE_MOD_KT", vars, <<>>)
            ELSE <<>>)
        \o << OpSave("kotlin"),
              OpSetProperty(Txt("mod_language"), Txt("kotlin")),
              OpSetProperty(Txt("kotlin_version"), Txt("2.1.0")) >>

\* run_add_kotlin after its guard
RunAddKotlinSteps(dir, config) ==
    LET vars == BuildVarsFromConfig(config)
        package_path == PackageToPath(config.mod_info.package)
        class_name == DeriveClassName(config.mod_info.mod_id)
    IN  MigrateToKotlin(dir, Txt("common"), package_path, class_name,
                        "TMPL_COMMON_MOD_KT", vars, <<>>)
        \o (IF config.loaders.fabric
            THEN MigrateToKotlin(dir, Txt("fabric"),
                                 package_path \o <<"/", "fabric">>,
                                 class_name \o <<"Fabric">>,
                                 "TMPL_FABRIC_MOD_KT", vars, <<package_path>>)
            ELSE <<>>)
        \o (IF config.loaders.neoforge
            THEN MigrateToKotlin(dir, Txt("neoforge"),
                                 package_path \o <<"/", "neoforge">>,
                                 class_name \o <<"NeoForge">>,
                                 "TMPL_NEOFORGE_MOD_KT", vars, <<>>)
            ELSE <<>>)
        \o << OpSetProperty(Txt("mod_language"), Txt("kotlin")),
              OpSetProperty(Txt("kotlin_version"), Txt("2.1.0")),
              OpSave("kotlin") >>

\* the neoforge guard reading the fabric flag (faulty variant)
NeoforgeGuardWrongFlag(config) == config.loaders.fabric

\* the kotlin guard comparing with another spelling (faulty variant)
KotlinGuardMixedCase(config) == config.mod_info.language = <<"Kotlin">>

\* the guards of the four handlers
FabricGuard(config) == config.loaders.fabric
NeoforgeGuard(config) == config.loaders.neoforge
CiGuard(config) == config.features.ci
KotlinGuard(config) == config.mod_info.language = <<"kotlin">>

\* the handlers building the loader flags anew instead of setting one
\* (faulty variant)
FlipFlagRebuild(config, field) ==
    CASE field = "fabric" ->
            [config EXCEPT !.loaders = [fabric |-> TRUE, neoforge |-> FALSE]]
      [] field = "neoforge" ->
            [config EXCEPT !.loaders = [fabric |-> FALSE, neoforge |-> TRUE]]
      [] field = "ci" -> [config EXCEPT !.features.ci = TRUE]
      [] field = "kotlin" -> [config EXCEPT !.mod_info.language = <<"kotlin">>]

\* the assignment each handler makes before config.save
FlipFlag(config, field) ==
    CASE field = "fabric" -> [config EXCEPT !.loaders.fabric = TRUE]
      [] field = "neoforge" -> [config EXCEPT !.loaders.neoforge = TRUE]
      [] field = "ci" -> [config EXCEPT !.features.ci = TRUE]
      [] field = "kotlin" -> [config EXCEPT !.mod_info.language = <<"kotlin">>]

(***************************************************************************)
(* commands/init.rs: the project `init` leaves behind                      *)
(***************************************************************************)
\* templates/settings.gradle and templates/gradle.properties, two shapes each
TMPL_SETTINGS_GRADLE(shape) ==
    IF shape = 1
    THEN IncludeLine(Txt("common")) \o <<NL, "rootProject.name", NL>>
    ELSE <<"rootProject.name">>

TMPL_GRADLE_PROPERTIES(shape, vars) ==
    IF shape = 1
    THEN EP \o vars.enabled_platforms \o <<NL>>
    ELSE <<"#", SP, "mod_language", "=", "java", NL>>
         \o EP \o vars.enabled_platforms

\* write_base_files (the files `add` never looks at are left out)
WriteBaseFiles(dir, vars, language, shape) ==
    << OpWrite(PathJoin(dir, <<"build.gradle">>), "TMPL_BUILD_GRADLE_ROOT"),
       OpWrite(SettingsPath(dir), TMPL_SETTINGS_GRADLE(shape)),
       OpWrite(PropertiesPath(dir),
               TMPL_GRADLE_PROPERTIES(shape, vars)
               \o IF language = <<"kotlin">>
                  THEN <<NL, "mod_language", "=", "kotlin", NL,
                         "kotlin_version", "=", "2.1.0", NL>>
                  ELSE <<>>) >>

\* write_common_module
WriteCommonModule(dir, vars, language) ==
    LET k == SourceKind(language)
    IN  << OpWrite(PathJoin(dir, <<"common", "/", "build.gradle">>),
                   "TMPL_COMMON_BUILD_GRADLE"),
           OpWrite(PathJoin(dir, <<"common", "/", "src", "/", "main", "/",
                                   k.source_dir, "/">>
                                 \o vars.package_path \o SLASH
                                 \o vars.class_name \o <<".", k.ext>>),
                   Render(IF k.ext = "kt" THEN "TMPL_COMMON_MOD_KT"
                          ELSE "TMPL_COMMON_MOD_JAVA", vars)),
           OpWrite(PathJoin(dir, <<"common", "/", "src", "/", "main", "/",
                                   "resources", "/", "assets", "/">>
                                 \o vars.mod_id \o <<"/", "icon.png.txt">>),
                   "icon") >>

\* the effect of one file operation that succeeds
ApplyOp(d, dir, op, config) ==
    CASE op.op = "write" -> WriteFile(d, op.path, op.content)
      [] op.op = "include" ->
            LET r == AddIncludeToSettings(d.files[SettingsPath(dir)], op.module)
            IN  IF r.wrote THEN PutFile(d, SettingsPath(dir), r.content) ELSE d
      [] op.op = "platform" ->
            PutFile(d, PropertiesPath(dir),
                    AddPlatformToGradleProperties(d.files[PropertiesPath(dir)],
                                                  op.platform))
      [] op.op = "setprop" ->
            PutFile(d, PropertiesPath(dir),
                    SetGradleProperty(d.files[PropertiesPath(dir)],
                                      op.key, op.value))
      [] op.op = "save" -> SaveConfig(d, dir, config)

RECURSIVE ApplyOps(_, _, _, _)
ApplyOps(d, dir, ops, config) ==
    IF ops = <<>> THEN d
    ELSE ApplyOps(ApplyOp(d, dir, Head(ops), config), dir, Tail(ops), config)

\* init.rs 108-110: the two flags the descriptor is given
HasFabric(loaders) == InSeq(Txt("fabric"), loaders)
HasNeoforge(loaders) == InSeq(Txt("neoforge"), loaders)

\* init.rs 112-127: the template variables
InitVars(opts) ==
    BuildVars(opts.mod_id, opts.package, DeriveClassName(opts.mod_id),
              opts.language, Join(opts.loaders, <<",">>))

\* init.rs 166-177: the descriptor init saves
InitConfig(opts) ==
    NewConfig(opts.mod_id, <<"My Mod">>, opts.package,
              <<"Author">>, <<"A Minecraft mod">>, opts.language,
              HasFabric(opts.loaders), HasNeoforge(opts.loaders), opts.ci,
              DefaultVersions)

\* init.rs 136-178: the file operations of init, in program order
InitOps(opts) ==
    LET dir == ProjectDir
        vars == InitVars(opts)
    IN  WriteBaseFiles(dir, vars, opts.language, opts.shape)
        \o WriteCommonModule(dir, vars, opts.language)
        \o (IF HasFabric(opts.loaders)
            THEN AddFabricFiles(dir, vars, opts.language)
                 \o <<OpInclude(Txt("fabric"))>>
            ELSE <<>>)
        \o (IF HasNeoforge(opts.loaders)
            THEN AddNeoforgeFiles(dir, vars, opts.language)
                 \o <<OpInclude(Txt("neoforge"))>>
            ELSE <<>>)
        \o (IF opts.ci THEN AddCiFiles(dir, vars) ELSE <<>>)
        \o <<OpSave("none")>>

\* init::run with every answer given and no file operation failing
InitRun(opts) ==
    ApplyOps([files |-> <<>>, dirs |-> {<<>>} \cup {ProjectDir}], ProjectDir,
             InitOps(opts), InitConfig(opts))

(***************************************************************************)
(* State                                                                   *)
(***************************************************************************)
VARIABLES
    disk,      \* the file system: files with their content, and directories
    pc,        \* per process: idle, called, run, cleanup, done
    feature,   \* per process: the argument of `add`
    config,    \* per process: the loaded McmodConfig, <<>> before the load
    todo,      \* per process: the file operations the handler has yet to make
    cur,       \* per process: `current` of cleanup_empty_dirs
    ret,       \* per process: the result of the last call
    hist,      \* per process: the disk at the call, and what the call did
    faults,    \* failed file operations and killed processes so far
    text,      \* the content of a file the patcher is applied to
    applied,   \* the patcher calls made on it, each with the content it read
    upd,       \* the self-update: the files beside the executable, and the
               \* position and result of replace_binary
    prefs,     \* the global preferences file, and the last `config` command
    ini        \* one run of `init`: the directory before and after it, the
               \* options it was given and its result

vars == <<disk, pc, feature, config, todo, cur, ret, hist, faults, text, applied, upd, prefs, ini>>

\* no self-update is running
NoUpdate == [pc |-> "off"]

\* no `config` command is run
NoPrefs == [n |-> 0]

\* no `init` is run
NoInit == [pc |-> "off"]

Procs == {1, 2}
FeatureNames == {"fabric", "neoforge", "ci", "kotlin", "forge"}

\* the projects `add` is run on: the answers given to `init`, the shape of
\* the two templates, and the user's edit
Scenarios ==
    { [loaders |-> <<Txt("fabric")>>, ci |-> TRUE, shape |-> 1, edit |-> "extra_class"],
      [loaders |-> <<Txt("fabric")>>, ci |-> TRUE, shape |-> 2, edit |-> "no_marker"],
      [loaders |-> <<Txt("neoforge")>>, ci |-> FALSE, shape |-> 2, edit |-> "none"],
      [loaders |-> <<Txt("forge")>>, ci |-> TRUE, shape |-> 1, edit |-> "blank_lines"],
      [loaders |-> <<Txt("fabric")>>, ci |-> FALSE, shape |-> 1, edit |-> "no_descriptor"] }

InitOptions(sc) ==
    [mod_id |-> <<"m", "_", "y">>, package |-> <<"com", ".", "my">>,
     language |-> <<"java">>, loaders |-> sc.loaders, ci |-> sc.ci,
     shape |-> sc.shape]

JavaRoot(module, package) ==
    PathJoin(ProjectDir, module \o <<"/", "src", "/", "main", "/", "java", "/">>
                         \o PackageToPath(package))

UserEdit(d, edit, opts) ==
    LET marker == JavaRoot(Txt("fabric"), opts.package)
                  \o << <<"mixin">>, <<"package-info.java">> >>
    IN  CASE edit = "none" -> d
          [] edit = "extra_class" ->
                WriteFile(d, JavaRoot(Txt("common"), opts.package)
                             \o << <<"Other.java">> >>, "user")
          [] edit = "no_marker" ->
                IF marker \in DOMAIN d.files
                THEN RemoveDir(RemoveFile(d, marker), Parent(marker))
                ELSE d
          [] edit = "no_descriptor" -> RemoveFile(d, ConfigPath(ProjectDir))
          [] edit = "blank_lines" ->
                PutFile(d, PropertiesPath(ProjectDir),
                        d.files[PropertiesPath(ProjectDir)] \o <<NL, NL>>)

Event(kind, path, tag) == [kind |-> kind, path |-> path, tag |-> tag]

Init ==
    /\ \E sc \in Scenarios :
          disk = UserEdit(InitRun(InitOptions(sc)), sc.edit, InitOptions(sc))
    /\ pc = [p \in Procs |-> "idle"]
    /\ feature = [p \in Procs |-> "none"]
    /\ config = [p \in Procs |-> <<>>]
    /\ todo = [p \in Procs |-> <<>>]
    /\ cur = [p \in Procs |-> <<>>]
    /\ ret = [p \in Procs |-> "none"]
    /\ hist = [p \in Procs |-> [disk0 |-> disk, again |-> FALSE, log |-> <<>>,
                              loaded |-> FALSE, msg |-> <<>>,
                              prev |-> [failed |-> FALSE, disk0 |-> NoDisk],
                              overlap |-> FALSE]]
    /\ faults = 0
    /\ text = <<>>
    /\ applied = <<>>
    /\ upd = NoUpdate
    /\ prefs = NoPrefs
    /\ ini = NoInit

(***************************************************************************)
(* Actions                                                                 *)
(***************************************************************************)
Logged(p, ev) == [hist EXCEPT ![p].log = Append(@, ev)]

\* the handler returns r
Finish(p, r) ==
    /\ pc' = [pc EXCEPT ![p] = "done"]
    /\ ret' = [ret EXCEPT ![p] = r]
    /\ config' = [config EXCEPT ![p] = <<>>]
    /\ todo' = [todo EXCEPT ![p] = <<>>]
    /\ cur' = [cur EXCEPT ![p] = <<>>]

\* the handler goes on to its next file operation
Advance(p) ==
    /\ todo' = [todo EXCEPT ![p] = Tail(@)]
    /\ UNCHANGED <<pc, feature, config, cur, ret, faults>>

\* the call that has just ended stopped at a failure or a kill before its save
StoppedEarly(p) ==
    /\ ret[p] \in {"Io", "killed"}
    /\ \A i \in 1..Len(hist[p].log) : hist[p].log[i].tag # "save"

\* main: `mcmod add <f>` is started.  hist.prev remembers the call before
\* this one when it stopped before its save and asked for the same feature:
\* the three files as they were when that call started.
\* hist.overlap tells whether another process is in the middle of an add.
Invoke(p, f) ==
    /\ pc[p] \in {"idle", "done"}
    /\ pc' = [pc EXCEPT ![p] = "called"]
    /\ feature' = [feature EXCEPT ![p] = f]
    /\ ret' = [ret EXCEPT ![p] = "none"]
    /\ hist' = [hist EXCEPT ![p] =
                  [disk0 |-> disk,
                   again |-> pc[p] = "done" /\ ret[p] = "Ok" /\ feature[p] = f,
                   log |-> <<>>, loaded |-> FALSE, msg |-> <<>>,
                   prev |-> IF StoppedEarly(p) /\ feature[p] = f
                            THEN [failed |-> TRUE, disk0 |-> PatchedPart(hist[p].disk0)]
                            ELSE [failed |-> FALSE, disk0 |-> NoDisk],
                   overlap |-> \E q \in Procs \ {p} :
                                  pc[q] \in {"called", "run", "cleanup"}]]
    /\ UNCHANGED <<disk, config, todo, cur, faults>>

\* (faulty variant) forge is taken for neoforge
HandlerForgeAlias(name) ==
    IF name \in {"fabric", "neoforge", "ci", "kotlin"} THEN name
    ELSE IF name = "forge" THEN "neoforge" ELSE "unknown"
\* add::run: the match on the feature name
Handler(name) ==
    IF name \in {"fabric", "neoforge", "ci", "kotlin"} THEN name ELSE "unknown"

\* add.rs 17-19: the text of the error for a name that is none of the four
UnknownFeatureMessage(name) ==
    <<"Unknown feature: ", name, ". Valid features: ",
      "fabric", ", ", "neoforge", ", ", "ci", ", ", "kotlin">>

\* the guard and the file operations of the handler add::run dispatches to
GuardOf(name, c) ==
    CASE name = "fabric" -> FabricGuard(c)
      [] name = "neoforge" -> NeoforgeGuard(c)
      [] name = "ci" -> CiGuard(c)
      [] name = "kotlin" -> KotlinGuard(c)

StepsOf(name, dir, c) ==
    CASE name = "fabric" -> RunAddFabricSteps(dir, c)
      [] name = "neoforge" -> RunAddNeoforgeSteps(dir, c)
      [] name = "ci" -> RunAddCiSteps(dir, c)
      [] name = "kotlin" -> RunAddKotlinSteps(dir, c)

\* the head of a handler: load the descriptor, check the guard
Enter(p, name) ==
    LET loaded == LoadConfig(disk, ProjectDir)
    IN  /\ pc[p] = "called"
        /\ Handler(feature[p]) = name
        /\ hist' = [hist EXCEPT ![p].loaded = TRUE]
        /\ IF loaded = <<>>
           THEN Finish(p, "ConfigNotFound")
           ELSE IF GuardOf(name, loaded[1])
           THEN Finish(p, "AlreadyEnabled")
           ELSE /\ pc' = [pc EXCEPT ![p] = "run"]
                /\ config' = [config EXCEPT ![p] = loaded]
                /\ todo' = [todo EXCEPT ![p] = StepsOf(name, ProjectDir, loaded[1])]
                /\ UNCHANGED <<cur, ret>>
        /\ UNCHANGED <<disk, feature, faults>>

RunAddFabric(p) == Enter(p, "fabric")

RunAddNeoforge(p) == Enter(p, "neoforge")

RunAddCi(p) == Enter(p, "ci")

RunAddKotlin(p) == Enter(p, "kotlin")

\* add::run with a name that is none of the four
RunUnknown(p) ==
    /\ pc[p] = "called"
    /\ Handler(feature[p]) = "unknown"
    /\ Finish(p, "Other")
    /\ hist' = [hist EXCEPT ![p].msg = UnknownFeatureMessage(feature[p])]
    /\ UNCHANGED <<disk, feature, faults>>

Running(p, kind) ==
    /\ pc[p] = "run"
    /\ todo[p] # <<>>
    /\ Head(todo[p]).op = kind

\* write_file
StepWriteFile(p) ==
    /\ Running(p, "write")
    /\ LET op == Head(todo[p])
       IN  /\ disk' = WriteFile(disk, op.path, op.content)
           /\ hist' = Logged(p, Event("write", op.path, "file"))
    /\ Advance(p)

\* migrate_to_kotlin: the marker file is written unless it exists
StepWriteIfAbsent(p) ==
    /\ Running(p, "write_if_absent")
    /\ LET op == Head(todo[p])
       IN  IF PathExists(disk, op.path)
           THEN UNCHANGED <<disk, hist>>
           ELSE /\ disk' = WriteFile(disk, op.path, op.content)
                /\ hist' = Logged(p, Event("write", op.path, "file"))
    /\ Advance(p)

\* gradle::add_include_to_settings
StepAddInclude(p) ==
    /\ Running(p, "include")
    /\ LET op == Head(todo[p])
           path == SettingsPath(ProjectDir)
       IN  IF path \notin DOMAIN disk.files
           THEN /\ Finish(p, "Io")
                /\ UNCHANGED <<disk, feature, hist, faults>>
           ELSE /\ disk' = ApplyOp(disk, ProjectDir, op, config[p][1])
                /\ hist' = IF disk' # disk
                           THEN Logged(p, Event("write", path, "include"))
                           ELSE hist
                /\ Advance(p)

\* gradle::add_platform_to_gradle_properties and gradle::set_gradle_property
StepPatchProperties(p) ==
    /\ \/ Running(p, "platform")
       \/ Running(p, "setprop")
    /\ LET op == Head(todo[p])
           path == PropertiesPath(ProjectDir)
       IN  IF path \notin DOMAIN disk.files
           THEN /\ Finish(p, "Io")
                /\ UNCHANGED <<disk, feature, hist, faults>>
           ELSE /\ disk' = ApplyOp(disk, ProjectDir, op, config[p][1])
                /\ hist' = Logged(p, Event("write", path,
                                IF op.op = "platform" THEN "enabled_platforms"
                                ELSE op.key[1]))
                /\ Advance(p)

\* the flag is set in memory and the descriptor saved
StepSave(p) ==
    /\ Running(p, "save")
    /\ LET flipped == FlipFlag(config[p][1], Head(todo[p]).field)
       IN  /\ config' = [config EXCEPT ![p] = <<flipped>>]
           /\ disk' = SaveConfig(disk, ProjectDir, flipped)
           /\ hist' = Logged(p, Event("write", ConfigPath(ProjectDir), "save"))
    /\ todo' = [todo EXCEPT ![p] = Tail(@)]
    /\ UNCHANGED <<pc, feature, cur, ret, faults>>

\* migrate_to_kotlin: the .java source is removed if it is there
StepRemoveJava(p) ==
    /\ Running(p, "remove_java")
    /\ LET op == Head(todo[p])
       IN  IF PathExists(disk, op.path)
           THEN /\ disk' = RemoveFile(disk, op.path)
                /\ hist' = Logged(p, Event("remove_file", op.path, "file"))
                /\ pc' = [pc EXCEPT ![p] = "cleanup"]
                /\ cur' = [cur EXCEPT ![p] = op.cleanup]
                /\ UNCHANGED <<feature, config, todo, ret, faults>>
           ELSE /\ UNCHANGED <<disk, hist>>
                /\ Advance(p)

\* cleanup_empty_dirs: one turn of the loop
StepCleanup(p) ==
    /\ pc[p] = "cleanup"
    /\ IF PathExists(disk, cur[p]) /\ DirIsEmpty(disk, cur[p])
       THEN /\ disk' = RemoveDir(disk, cur[p])
            /\ hist' = Logged(p, Event("remove_dir", cur[p], "dir"))
            /\ IF HasParent(cur[p])
               THEN /\ cur' = [cur EXCEPT ![p] = Parent(@)]
                    /\ UNCHANGED <<pc, todo>>
               ELSE /\ cur' = [cur EXCEPT ![p] = <<>>]
                    /\ pc' = [pc EXCEPT ![p] = "run"]
                    /\ todo' = [todo EXCEPT ![p] = Tail(@)]
       ELSE /\ cur' = [cur EXCEPT ![p] = <<>>]
            /\ pc' = [pc EXCEPT ![p] = "run"]
            /\ todo' = [todo EXCEPT ![p] = Tail(@)]
            /\ UNCHANGED <<disk, hist>>
    /\ UNCHANGED <<feature, config, ret, faults>>

\* the handler has nothing left to do: Ok(())
Return(p) ==
    /\ pc[p] = "run"
    /\ todo[p] = <<>>
    /\ Finish(p, "Ok")
    /\ UNCHANGED <<disk, feature, hist, faults>>

\* the file operation the handler is about to make can fail
Fallible(p) ==
    \/ /\ pc[p] = "cleanup"
       /\ PathExists(disk, cur[p])
    \/ /\ pc[p] = "run"
       /\ todo[p] # <<>>
       /\ LET op == Head(todo[p])
          IN  \/ op.op \in {"write", "include", "platform", "setprop", "save"}
              \/ op.op = "remove_java" /\ PathExists(disk, op.path)
              \/ op.op = "write_if_absent" /\ ~PathExists(disk, op.path)

\* a file operation fails: the `?` returns the error
Fail(p) ==
    /\ faults < MaxFaults
    /\ Fallible(p)
    /\ faults' = faults + 1
    /\ Finish(p, "Io")
    /\ UNCHANGED <<disk, feature, hist>>

\* the process is killed between two file operations
Kill(p) ==
    /\ faults < MaxFaults
    /\ pc[p] \in {"called", "run", "cleanup"}
    /\ faults' = faults + 1
    /\ pc' = [pc EXCEPT ![p] = "idle"]
    /\ ret' = [ret EXCEPT ![p] = "killed"]
    /\ config' = [config EXCEPT ![p] = <<>>]
    /\ todo' = [todo EXCEPT ![p] = <<>>]
    /\ cur' = [cur EXCEPT ![p] = <<>>]
    /\ UNCHANGED <<disk, feature, hist>>

\* the patcher's variables, which `add` leaves alone
Quiet == UNCHANGED <<text, applied, upd, prefs, ini>>

\* one `add` at a time
Next ==
    \/ (\E f \in FeatureNames : Invoke(1, f)) /\ Quiet
    \/ RunAddFabric(1) /\ Quiet
    \/ RunAddNeoforge(1) /\ Quiet
    \/ RunAddCi(1) /\ Quiet
    \/ RunAddKotlin(1) /\ Quiet
    \/ RunUnknown(1) /\ Quiet
    \/ StepWriteFile(1) /\ Quiet
    \/ StepWriteIfAbsent(1) /\ Quiet
    \/ StepAddInclude(1) /\ Quiet
    \/ StepPatchProperties(1) /\ Quiet
    \/ StepSave(1) /\ Quiet
    \/ StepRemoveJava(1) /\ Quiet
    \/ StepCleanup(1) /\ Quiet
    \/ Return(1) /\ Quiet
    \/ Fail(1) /\ Quiet
    \/ Kill(1) /\ Quiet

Spec == Init /\ [][Next]_vars

(***************************************************************************)
(* Properties of `add`                                                     *)
(***************************************************************************)
Added == {"fabric", "neoforge", "ci", "kotlin"}

\* the text of the descriptor a disk holds, empty when it holds none
SavedText(d) ==
    IF PathExists(d, ConfigPath(ProjectDir)) THEN d.files[ConfigPath(ProjectDir)] ELSE <<>>

\* feature f is recorded as enabled in the descriptor on disk d
HasFeature(d, f) ==
    CASE SavedText(d) = <<>> -> FALSE
      [] f = "fabric" -> TomlGet(SavedText(d), "[loaders]", "fabric")
      [] f = "neoforge" -> TomlGet(SavedText(d), "[loaders]", "neoforge")
      [] f = "ci" -> TomlGet(SavedText(d), "[features]", "ci")
      [] f = "kotlin" -> TomlGet(SavedText(d), "[mod_info]", "language") = <<"kotlin">>
      [] OTHER -> FALSE

InCall(p) == pc[p] \in {"called", "run", "cleanup", "done"}

\* C1: add(name) on a project whose descriptor already has the feature
\* enabled fails with AlreadyEnabled, and no file or directory of the
\* project has been created, modified or deleted.
C1_AlreadyEnabledTouchesNothing ==
    \A p \in Procs :
        (/\ InCall(p)
         /\ feature[p] \in Added
         /\ HasFeature(hist[p].disk0, feature[p]))
        => /\ disk = hist[p].disk0
           /\ hist[p].log = <<>>
           /\ pc[p] \in {"called", "done"}
           /\ pc[p] = "done" => ret[p] = "AlreadyEnabled"

C1_Witness ==
    /\ pc[1] = "done"
    /\ feature[1] = "kotlin"
    /\ ret[1] = "AlreadyEnabled"
    /\ HasFeature(hist[1].disk0, "kotlin")

SaveEvents(log) == {i \in 1..Len(log) : log[i].path = ConfigPath(ProjectDir)}

\* C2: add(fabric), add(neoforge) and add(ci) write the descriptor at most
\* once and as their last step; when a step fails the error is returned,
\* the descriptor on disk is what it was before the call, and the files
\* written before the failing step are still there.
C2_DescriptorWrittenLast ==
    \A p \in Procs :
        (InCall(p) /\ feature[p] \in {"fabric", "neoforge", "ci"})
        => LET log == hist[p].log
           IN  /\ Cardinality(SaveEvents(log)) <= 1
               /\ \A i \in SaveEvents(log) : i = Len(log) /\ todo[p] = <<>>
               /\ SaveEvents(log) = {} => SavedText(disk) = SavedText(hist[p].disk0)
               /\ (pc[p] = "done" /\ ret[p] = "Io")
                  => /\ SaveEvents(log) = {}
                     /\ ~HasFeature(disk, feature[p])
                     /\ \A i \in 1..Len(log) : log[i].path \in DOMAIN disk.files

C2_Witness ==
    /\ pc[1] = "done"
    /\ feature[1] = "fabric"
    /\ ret[1] = "Io"
    /\ Len(hist[1].log) >= 7
    /\ disk # hist[1].disk0

\* C3: once a loader flag or the ci flag is true in the saved descriptor it
\* is true in every later saved descriptor, and language kotlin never
\* becomes java again, whatever adds run and wherever they fail.
C3_FlagsMonotonic ==
    [][\/ SavedText(disk') = SavedText(disk)
       \/ \A f \in Added : HasFeature(disk, f) => HasFeature(disk', f)]_vars

C3_Witness ==
    /\ pc[1] = "done"
    /\ ret[1] = "Io"
    /\ HasFeature(disk, "fabric")
    /\ HasFeature(disk, "neoforge")
    /\ HasFeature(disk, "kotlin")

\* C4: when add(name) succeeded and add(name) is called again, the second
\* call fails with AlreadyEnabled and leaves the descriptor as the first
\* call left it.
C4_SecondAddRejected ==
    \A p \in Procs :
        (hist[p].again /\ feature[p] \in Added /\ pc[p] = "done")
        => /\ ret[p] = "AlreadyEnabled"
           /\ SavedText(disk) = SavedText(hist[p].disk0)

C4_Witness ==
    /\ hist[1].again
    /\ feature[1] = "fabric"
    /\ pc[1] = "done"
    /\ ret[1] = "AlreadyEnabled"

\* the tokens of the first enabled_platforms= line of a properties text
EnabledTokens(content) ==
    LET lines == Lines(content)
        hits == {i \in 1..Len(lines) : StartsWith(lines[i], EP)}
        first == CHOOSE i \in hits : \A j \in hits : i <= j
    IN  IF hits = {} THEN <<>> ELSE PlatformTokens(lines[first])

Registered(d, loader) ==
    /\ Contains(d.files[SettingsPath(ProjectDir)], IncludeLine(Txt(loader)))
    /\ InSeq(Txt(loader), EnabledTokens(d.files[PropertiesPath(ProjectDir)]))

VarsOf(d) == BuildVarsFromConfig(FromToml(SavedText(d)))
CommonSource(d, language) ==
    WriteCommonModule(ProjectDir, VarsOf(d), language)[2].path
FabricSource(d, language) ==
    AddFabricFiles(ProjectDir, VarsOf(d), language)[3].path
MarkerPath(d) ==
    AddFabricFiles(ProjectDir, VarsOf(d), <<"java">>)[6].path

Removed(log) == {log[i].path : i \in {j \in 1..Len(log) : log[j].kind = "remove_file"}}

\* C6: on a java project with fabric enabled and neoforge disabled, a
\* successful add(kotlin) leaves the common and fabric .java sources (the
\* paths init/add wrote) absent, the .kt sources present at the mirrored
\* paths, mod_language=kotlin in gradle.properties, language kotlin in the
\* descriptor and the fabric flag still true.
C6_KotlinMigrationPostState ==
    \A p \in Procs :
        LET d0 == hist[p].disk0
        IN  (/\ pc[p] = "done" /\ ret[p] = "Ok" /\ feature[p] = "kotlin"
             /\ ~HasFeature(d0, "kotlin")
             /\ HasFeature(d0, "fabric")
             /\ ~HasFeature(d0, "neoforge"))
            => /\ CommonSource(d0, <<"java">>) \notin DOMAIN disk.files
               /\ CommonSource(d0, <<"kotlin">>) \in DOMAIN disk.files
               /\ FabricSource(d0, <<"java">>) \notin DOMAIN disk.files
               /\ FabricSource(d0, <<"kotlin">>) \in DOMAIN disk.files
               /\ InSeq(<<"mod_language", "=", "kotlin">>,
                        Lines(disk.files[PropertiesPath(ProjectDir)]))
               /\ HasFeature(disk, "kotlin")
               /\ HasFeature(disk, "fabric")
               /\ ~HasFeature(disk, "neoforge")
               /\ Removed(hist[p].log)
                    = {CommonSource(d0, <<"java">>), FabricSource(d0, <<"java">>)}
                      \cap DOMAIN d0.files

C6_Witness ==
    /\ pc[1] = "done" /\ ret[1] = "Ok" /\ feature[1] = "kotlin"
    /\ HasFeature(hist[1].disk0, "fabric")
    /\ ~HasFeature(hist[1].disk0, "neoforge")
    /\ Cardinality(Removed(hist[1].log)) = 2

\* the stage of add(kotlin) an effect belongs to
Rank(e) ==
    IF e.path = ConfigPath(ProjectDir) THEN 6
    ELSE IF e.path = PropertiesPath(ProjectDir)
         THEN (IF e.tag = "mod_language" THEN 4 ELSE 5)
    ELSE IF e.path[2] = <<"common">> THEN 1
    ELSE IF e.path[2] = <<"fabric">> THEN 2
    ELSE 3

\* the .kt source of module m was written before effect i
KtWrittenBefore(log, i, m) ==
    \E j \in 1..(i - 1) :
        /\ log[j].kind = "write"
        /\ log[j].path[2] = <<m>>
        /\ log[j].path[5] = <<"kotlin">>

\* C7: add(kotlin) migrates common, then fabric if enabled, then neoforge
\* if enabled; it upserts mod_language and kotlin_version only after every
\* migration, and saves the descriptor only after both upserts.  When a
\* step fails the descriptor on disk still has its previous language and
\* no later step has run.
C7_KotlinMigrationOrder ==
    \A p \in Procs :
        (InCall(p) /\ feature[p] = "kotlin")
        => LET log == hist[p].log
               d0 == hist[p].disk0
               n == Len(log)
           IN  /\ \A i \in 1..n : \A j \in i..n : Rank(log[i]) <= Rank(log[j])
               /\ \A i \in 1..n :
                    /\ Rank(log[i]) = 2 =>
                          HasFeature(d0, "fabric") /\ KtWrittenBefore(log, i, "common")
                    /\ Rank(log[i]) = 3 =>
                          /\ HasFeature(d0, "neoforge")
                          /\ KtWrittenBefore(log, i, "common")
                          /\ HasFeature(d0, "fabric") => KtWrittenBefore(log, i, "fabric")
                    /\ Rank(log[i]) = 4 =>
                          /\ KtWrittenBefore(log, i, "common")
                          /\ HasFeature(d0, "fabric") => KtWrittenBefore(log, i, "fabric")
                          /\ HasFeature(d0, "neoforge") => KtWrittenBefore(log, i, "neoforge")
                    /\ Rank(log[i]) = 5 => \E j \in 1..(i - 1) : Rank(log[j]) = 4
                    /\ Rank(log[i]) = 6 => \E j \in 1..(i - 1) : Rank(log[j]) = 5
               /\ SaveEvents(log) = {} => SavedText(disk) = SavedText(d0)
               /\ (pc[p] = "done" /\ ret[p] = "Io") => SaveEvents(log) = {}
               /\ (pc[p] = "done" /\ ret[p] = "Ok") => SaveEvents(log) = {n}

C7_Witness ==
    /\ pc[1] = "done" /\ ret[1] = "Io" /\ feature[1] = "kotlin"
    /\ \E i \in 1..Len(hist[1].log) : Rank(hist[1].log[i]) = 2
    /\ \E i \in 1..Len(hist[1].log) : Rank(hist[1].log[i]) = 4
    /\ ~HasFeature(disk, "kotlin")

\* nothing, file or directory, lies directly in directory path of disk d
HoldsNothing(d, path) ==
    /\ ~\E f \in DOMAIN d.files : Len(f) = Len(path) + 1 /\ SubSeq(f, 1, Len(path)) = path
    /\ ~\E g \in d.dirs : Len(g) = Len(path) + 1 /\ SubSeq(g, 1, Len(path)) = path

\* C8: cleanup_empty_dirs removes only directories that are empty when it
\* removes them, stops at the first directory that is not empty, and never
\* removes the project directory or a directory above it.
C8_CleanupRemovesOnlyEmptyDirs ==
    [][/\ \A g \in disk.dirs \ disk'.dirs :
             /\ HoldsNothing(disk, g)
             /\ g \notin {ProjectDir} \cup ProperAncestors(ProjectDir)
       /\ \A p \in Procs :
             (pc[p] = "cleanup" /\ ~HoldsNothing(disk, cur[p]))
             => (pc'[p] # "cleanup" /\ disk'.dirs = disk.dirs)]_vars

RemovedDirs(log) == {i \in 1..Len(log) : log[i].kind = "remove_dir"}

C8_Witness ==
    /\ pc[1] = "run" /\ feature[1] = "kotlin"
    /\ Cardinality(RemovedDirs(hist[1].log)) >= 3
    /\ ProjectDir \in disk.dirs
    /\ ~HoldsNothing(disk, ProjectDir)

\* C9: once add(kotlin) has migrated the fabric module the mixin
\* package-info.java exists; one that existed before is neither deleted
\* nor rewritten and its directory is not removed; a missing one is written.
C9_MarkerPreserved ==
    \A p \in Procs :
        (InCall(p) /\ feature[p] = "kotlin" /\ HasFeature(hist[p].disk0, "fabric"))
        => LET log == hist[p].log
               d0 == hist[p].disk0
               marker == MarkerPath(d0)
               migrated ==
                  \/ pc[p] = "done" /\ ret[p] = "Ok"
                  \/ \E i \in 1..Len(log) :
                        /\ Rank(log[i]) = 2
                        /\ log[i].kind = "write"
                        /\ log[i].path[5] = <<"kotlin">>
                        /\ i < Len(log)
           IN  /\ marker \in DOMAIN d0.files
                  => /\ marker \in DOMAIN disk.files
                     /\ disk.files[marker] = d0.files[marker]
                     /\ Parent(marker) \in disk.dirs
                     /\ \A i \in 1..Len(log) :
                           log[i].path # marker /\ log[i].path # Parent(marker)
               /\ migrated
                  => /\ marker \in DOMAIN disk.files
                     /\ marker \notin DOMAIN d0.files
                        => \E i \in 1..Len(log) :
                              log[i].kind = "write" /\ log[i].path = marker

C9_Witness ==
    /\ pc[1] = "done" /\ ret[1] = "Ok" /\ feature[1] = "kotlin"
    /\ HasFeature(hist[1].disk0, "fabric")
    /\ MarkerPath(disk) \notin DOMAIN hist[1].disk0.files
    /\ MarkerPath(disk) \in DOMAIN disk.files

(***************************************************************************)
(* The patcher on its own: gradle.rs applied to enumerated file contents   *)
(***************************************************************************)
\* the lines a settings.gradle is made of; "x" stands for any other text
SettingsLinePool ==
    { IncludeLine(Txt("common")),
      IncludeLine(Txt("fabric")),
      <<SP>> \o IncludeLine(Txt("neoforge")),
      <<"x">> \o IncludeLine(Txt("fabric")),
      <<"rootProject.name">>,
      <<"x">>,
      <<>> }

\* every text of at most MaxLines lines, with and without a final newline
TextsOver(pool) ==
    { Join(ls, <<NL>>) \o ending :
        ls \in UNION {[1..k -> pool] : k \in 0..MaxLines},
        ending \in {<<>>, <<NL>>} }

Modules == {Txt("fabric"), Txt("neoforge")}

Call(fn, arg, val) == [fn |-> fn, arg |-> arg, val |-> val, before |-> text]

InitPatch ==
    /\ disk = [files |-> <<>>, dirs |-> {<<>>}]
    /\ pc = [p \in Procs |-> "idle"]
    /\ feature = [p \in Procs |-> "none"]
    /\ config = [p \in Procs |-> <<>>]
    /\ todo = [p \in Procs |-> <<>>]
    /\ cur = [p \in Procs |-> <<>>]
    /\ ret = [p \in Procs |-> "none"]
    /\ hist = [p \in Procs |-> [disk0 |-> disk, again |-> FALSE, log |-> <<>>,
                              loaded |-> FALSE, msg |-> <<>>,
                              prev |-> [failed |-> FALSE, disk0 |-> NoDisk],
                              overlap |-> FALSE]]
    /\ faults = 0
    /\ text \in TextsOver(SettingsLinePool)
    /\ applied = <<>>
    /\ upd = NoUpdate
    /\ prefs = NoPrefs
    /\ ini = NoInit

\* add_include_to_settings on the text
PatchInclude(module) ==
    /\ Len(applied) < MaxPatches
    /\ text' = AddIncludeToSettings(text, module).content
    /\ applied' = Append(applied, Call("include", module, <<>>))
    /\ UNCHANGED <<disk, pc, feature, config, todo, cur, ret, hist, faults, upd, prefs, ini>>

NextPatch == \E module \in Modules : PatchInclude(module)

SpecPatch == InitPatch /\ [][NextPatch]_vars

\* the text after the i-th call
After(i) == IF i = Len(applied) THEN text ELSE applied[i + 1].before

\* the i-th call repeats the call before it
Repeats(i) ==
    /\ applied[i].fn = applied[i - 1].fn
    /\ applied[i].arg = applied[i - 1].arg
    /\ applied[i].val = applied[i - 1].val

\* C10: add_include_to_settings applied twice with the same module gives
\* the file that applying it once gives.
C10_IncludeIdempotent ==
    \A i \in 2..Len(applied) :
        (applied[i].fn = "include" /\ Repeats(i)) => After(i) = After(i - 1)

C10_Witness ==
    /\ Len(applied) = 2
    /\ applied[2].fn = "include"
    /\ Repeats(2)
    /\ applied[2].before # applied[1].before
    /\ Lines(applied[1].before) # <<>>

\* the places of a line among the lines of a text
PlacesOf(t, line) == {j \in 1..Len(Lines(t)) : Lines(t)[j] = line}

\* C11: two distinct modules, neither in the file yet, inserted one after
\* the other end up in the order of the calls: the first module's include
\* line is on an earlier line than the second's.
C11_InsertionOrderKept ==
    \A i \in 2..Len(applied) :
        LET a == IncludeLine(applied[i - 1].arg)
            b == IncludeLine(applied[i].arg)
            t0 == applied[i - 1].before
        IN  (/\ applied[i - 1].fn = "include" /\ applied[i].fn = "include"
             /\ a # b
             /\ ~Contains(t0, a) /\ ~Contains(t0, b))
            => /\ PlacesOf(After(i), a) # {}
               /\ PlacesOf(After(i), b) # {}
               /\ \A j \in PlacesOf(After(i), a) :
                     \A k \in PlacesOf(After(i), b) : j < k

C11_Witness ==
    /\ Len(applied) = 2
    /\ applied[1].fn = "include" /\ applied[1].arg = Txt("neoforge")
    /\ applied[2].fn = "include" /\ applied[2].arg = Txt("fabric")
    /\ applied[1].before = IncludeLine(Txt("common")) \o <<NL, "x", NL, "rootProject.name", NL>>
    /\ PlacesOf(text, IncludeLine(Txt("neoforge"))) = {2}
    /\ PlacesOf(text, IncludeLine(Txt("fabric"))) = {3}

\* the lines of ls whose trimmed text starts with pre
Anchors(ls, pre) == {j \in 1..Len(ls) : StartsWith(Trim(ls[j]), pre)}

\* C12: an include line that is not in the file yet is placed right after
\* the last line whose trimmed text starts with include(; when there is no
\* such line, right before the first line whose trimmed text starts with
\* rootProject.name; when there is neither, as the last line of the file.
C12_AnchorRule ==
    \A i \in 1..Len(applied) :
        LET line == IncludeLine(applied[i].arg)
            ls == Lines(applied[i].before)
            out == Lines(After(i))
            incs == Anchors(ls, <<"include(">>)
            rps == Anchors(ls, <<"rootProject.name">>)
            k == IF incs # {} THEN (CHOOSE j \in incs : \A m \in incs : m <= j) + 1
                 ELSE IF rps # {} THEN CHOOSE j \in rps : \A m \in rps : j <= m
                 ELSE Len(ls) + 1
        IN  (applied[i].fn = "include" /\ ~Contains(applied[i].before, line))
            => /\ k <= Len(out)
               /\ out[k] = line
               /\ SubSeq(out, 1, k - 1) = SubSeq(ls, 1, k - 1)
               /\ (incs = {} /\ rps # {}) => (k + 1 <= Len(out) /\ out[k + 1] = ls[k])
               /\ (incs = {} /\ rps = {}) => k = Len(out)

C12_Witness ==
    /\ Len(applied) = 1
    /\ applied[1].fn = "include" /\ applied[1].arg = Txt("neoforge")
    /\ applied[1].before = <<"x", NL, "rootProject.name", NL, "rootProject.name">>
    /\ Lines(text) = << <<"x">>, IncludeLine(Txt("neoforge")),
                        <<"rootProject.name">>, <<"rootProject.name">> >>

\* xs can be got from ys by leaving elements out
RECURSIVE IsSubsequence(_, _)
IsSubsequence(xs, ys) ==
    IF xs = <<>> THEN TRUE
    ELSE IF ys = <<>> THEN FALSE
    ELSE IF Head(xs) = Head(ys) THEN IsSubsequence(Tail(xs), Tail(ys))
    ELSE IsSubsequence(xs, Tail(ys))

\* C13: add_include_to_settings only adds: the lines before the call are a
\* subsequence of the lines after it, a blank line at the end of the file
\* included, and at most one line is added.
C13_IncludeOnlyAdds ==
    \A i \in 1..Len(applied) :
        applied[i].fn = "include"
        => /\ IsSubsequence(Lines(applied[i].before), Lines(After(i)))
           /\ Len(Lines(After(i))) <= Len(Lines(applied[i].before)) + 1

(***************************************************************************)
(* The three patchers on enumerated gradle.properties contents             *)
(***************************************************************************)
\* the lines a gradle.properties is made of
PropsLinePool ==
    { EP \o <<"fabric">>,
      EP,
      EP \o <<SP, "neoforge", SP, ",", "fabric">>,
      EP \o EP \o <<"fabric">>,
      <<"mod_language", "=", "java">>,
      <<"#", SP, "mod_language", "=", "java">>,
      <<>> }

\* every text of at most n lines, with and without a final newline
TextsUpTo(pool, n) ==
    { Join(ls, <<NL>>) \o ending :
        ls \in UNION {[1..k -> pool] : k \in 0..n},
        ending \in {<<>>, <<NL>>} }

Platforms == {Txt("fabric"), Txt("neoforge")}

\* the properties `add` and `init` set
Properties ==
    { [key |-> <<"mod_language">>, value |-> <<"kotlin">>],
      [key |-> <<"kotlin_version">>, value |-> <<"2.1.0">>] }

InitText ==
    /\ disk = [files |-> <<>>, dirs |-> {<<>>}]
    /\ pc = [p \in Procs |-> "idle"]
    /\ feature = [p \in Procs |-> "none"]
    /\ config = [p \in Procs |-> <<>>]
    /\ todo = [p \in Procs |-> <<>>]
    /\ cur = [p \in Procs |-> <<>>]
    /\ ret = [p \in Procs |-> "none"]
    /\ hist = [p \in Procs |-> [disk0 |-> disk, again |-> FALSE, log |-> <<>>,
                              loaded |-> FALSE, msg |-> <<>>,
                              prev |-> [failed |-> FALSE, disk0 |-> NoDisk],
                              overlap |-> FALSE]]
    /\ faults = 0
    /\ text \in TextsUpTo(PropsLinePool, MaxPropLines)
    /\ applied = <<>>
    /\ upd = NoUpdate
    /\ prefs = NoPrefs
    /\ ini = NoInit

\* add_platform_to_gradle_properties on the text
PatchPlatform(platform) ==
    /\ Len(applied) < MaxPatches
    /\ text' = AddPlatformToGradleProperties(text, platform)
    /\ applied' = Append(applied, Call("platform", platform, <<>>))
    /\ UNCHANGED <<disk, pc, feature, config, todo, cur, ret, hist, faults, upd, prefs, ini>>

\* set_gradle_property on the text
PatchProperty(key, value) ==
    /\ Len(applied) < MaxPatches
    /\ text' = SetGradleProperty(text, key, value)
    /\ applied' = Append(applied, Call("setprop", key, value))
    /\ UNCHANGED <<disk, pc, feature, config, todo, cur, ret, hist, faults, upd, prefs, ini>>

NextText ==
    \/ PatchInclude(Txt("fabric"))
    \/ \E platform \in Platforms : PatchPlatform(platform)
    \/ \E kv \in Properties : PatchProperty(kv.key, kv.value)

SpecText == InitText /\ [][NextText]_vars

\* the lines of ls that start with key= or with # key=
KeyLines(ls, key) ==
    {j \in 1..Len(ls) : \/ StartsWith(ls[j], key \o <<"=">>)
                        \/ StartsWith(ls[j], <<"#", SP>> \o key \o <<"=">>)}

\* C14: set_gradle_property replaces the first line that starts with key= or
\* # key= by key=value, or appends one line key=value when there is none;
\* every other line, blank lines at the end of the file included, is
\* unchanged and in its place.
C14_UpsertFrame ==
    \A i \in 1..Len(applied) :
        LET ls == Lines(applied[i].before)
            out == Lines(After(i))
            new_line == applied[i].arg \o <<"=">> \o applied[i].val
            hits == KeyLines(ls, applied[i].arg)
            first == CHOOSE j \in hits : \A m \in hits : j <= m
        IN  applied[i].fn = "setprop"
            => IF hits # {} THEN out = [ls EXCEPT ![first] = new_line]
               ELSE out = Append(ls, new_line)

\* C15: set_gradle_property(key, value) applied twice gives the file that
\* applying it once gives, and so does add_platform_to_gradle_properties,
\* also on a content that ends with blank lines.
C15_UpsertIdempotent ==
    \A i \in 2..Len(applied) :
        (applied[i].fn \in {"setprop", "platform"} /\ Repeats(i))
        => After(i) = After(i - 1)

\* the value of an enabled_platforms= line, split at the commas
ValueTokens(line) ==
    LET parts == Split(SubSeq(line, Len(EP) + 1, Len(line)), ",")
    IN  [j \in 1..Len(parts) |-> Trim(parts[j])]

\* C16: add_platform_to_gradle_properties with a token that is in the
\* enabled_platforms value leaves the value's tokens, their order and their
\* count as they are; a token that is not in it is appended after the
\* tokens there are, which keep their order.
C16_CommaSetUpsert ==
    \A i \in 1..Len(applied) :
        LET ls == Lines(applied[i].before)
            out == Lines(After(i))
            eps == {j \in 1..Len(ls) : StartsWith(ls[j], EP)}
            first == CHOOSE j \in eps : \A m \in eps : j <= m
            tokens == ValueTokens(ls[first])
        IN  (applied[i].fn = "platform" /\ eps # {})
            => /\ first <= Len(out)
               /\ StartsWith(out[first], EP)
               /\ ValueTokens(out[first])
                    = IF InSeq(applied[i].arg, tokens) THEN tokens
                      ELSE Append(tokens, applied[i].arg)

\* C17: each of the three patchers keeps the file's final newline: a content
\* that ends with a newline is rewritten to one that does, and a content
\* that is not empty and does not end with a newline to one that does not.
C17_TrailingNewlineKept ==
    \A i \in 1..Len(applied) :
        /\ EndsWith(applied[i].before, <<NL>>) => EndsWith(After(i), <<NL>>)
        /\ (applied[i].before # <<>> /\ ~EndsWith(applied[i].before, <<NL>>))
           => ~EndsWith(After(i), <<NL>>)

C17_Witness ==
    /\ Len(applied) = 2
    /\ applied[1].fn = "setprop" /\ applied[2].fn = "include"
    /\ EndsWith(applied[1].before, <<NL>>)
    /\ Len(Lines(applied[1].before)) = 2
    /\ Len(Lines(text)) = 4
    /\ EndsWith(text, <<NL>>)

\* C36: after add_platform_to_gradle_properties(p) the file has an
\* enabled_platforms= line whose comma-separated tokens contain p and none of
\* which is empty, also when the file had no such line before the call or the
\* line's value was empty.
C36_PlatformUpsert ==
    \A i \in 1..Len(applied) :
        applied[i].fn = "platform"
        => \E j \in 1..Len(Lines(After(i))) :
              LET line == Lines(After(i))[j]
              IN  /\ StartsWith(line, EP)
                  /\ InSeq(applied[i].arg, ValueTokens(line))
                  /\ ~InSeq(<<>>, ValueTokens(line))

(***************************************************************************)
(* commands/update.rs: replacing the running executable                    *)
(***************************************************************************)
\* a file name is the sequence of its dot-separated parts
\* Path::with_extension: the part after the last dot is replaced, and a name
\* without a dot gets the extension appended
WithExtension(path, ext) ==
    (IF Len(path) > 1 THEN SubSeq(path, 1, Len(path) - 1) ELSE path) \o ext

\* (faulty variant) the payload is written over the executable itself
TempPathInPlace(current_exe) == current_exe
\* update.rs 119
TempPath(current_exe) == WithExtension(current_exe, <<"new">>)

\* (faulty variant) the backup path is the path of the executable itself
OldPathInPlace(current_exe) == current_exe
\* update.rs 137
OldPath(current_exe) == WithExtension(current_exe, <<"exe", "old">>)

\* the names the installed executable goes by
CurrentExes == { <<"mcmod">>, <<"mcmod", "exe">> }

\* a file beside the executable: what it holds and its permission bits
BinFile(content, mode) == [content |-> content, mode |-> mode]
Original == BinFile("original", "0755")
Stale == BinFile("stale", "0644")

Exists(fs, path) == path \in DOMAIN fs

Put(fs, path, file) ==
    [q \in DOMAIN fs \cup {path} |-> IF q = path THEN file ELSE fs[q]]

\* std::fs::remove_file
Unlink(fs, path) == [q \in DOMAIN fs \ {path} |-> fs[q]]

\* std::fs::write, first half: the file is created or truncated; an existing
\* file keeps its permission bits, a new one gets the default ones
BinOpen(fs, path) ==
    Put(fs, path, BinFile("partial", IF Exists(fs, path) THEN fs[path].mode ELSE "0644"))

\* std::fs::write, second half: all the bytes are in the file
BinWriteAll(fs, path, data) == Put(fs, path, BinFile(data, fs[path].mode))

\* (faulty variant) the permission bits are left as they are
SetPermissionsNoop(fs, path, mode) == fs
\* std::fs::set_permissions
SetPermissions(fs, path, mode) == Put(fs, path, BinFile(fs[path].content, mode))

\* std::fs::rename: one step, the target is replaced if there is one
Rename(fs, from, to) ==
    IF from = to THEN fs ELSE Unlink(Put(fs, to, fs[from]), from)

\* the faults one run of the updater meets
MaxUpdateFaults == 2

\* update.rs 9: CARGO_PKG_VERSION of the build
CurrentVersion == <<"1.0">>

\* std::env::consts::OS and ARCH of the build
Targets ==
    { [os |-> "linux", arch |-> "x86_64"], [os |-> "macos", arch |-> "aarch64"],
      [os |-> "windows", arch |-> "x86_64"], [os |-> "linux", arch |-> "aarch64"],
      [os |-> "windows", arch |-> "aarch64"] }

\* cfg!(unix) at update.rs 111
IsUnix(os) == os # "windows"

\* (faulty variant) the architecture is not looked at
GetAssetNameAnyArch(os, arch) ==
    CASE os = "linux" -> [ok |-> TRUE, name |-> "mcmod-linux-x86_64"]
      [] os = "macos" -> [ok |-> TRUE, name |-> "mcmod-macos-aarch64"]
      [] OTHER -> [ok |-> TRUE, name |-> "mcmod-windows-x86_64.exe"]
\* update.rs 88-105
GetAssetName(os, arch) ==
    CASE os = "linux" /\ arch = "x86_64" -> [ok |-> TRUE, name |-> "mcmod-linux-x86_64"]
      [] os = "macos" /\ arch = "x86_64" -> [ok |-> TRUE, name |-> "mcmod-macos-x86_64"]
      [] os = "macos" /\ arch = "aarch64" -> [ok |-> TRUE, name |-> "mcmod-macos-aarch64"]
      [] os = "windows" /\ arch = "x86_64" -> [ok |-> TRUE, name |-> "mcmod-windows-x86_64.exe"]
      [] OTHER -> [ok |-> FALSE, name |-> "Unsupported platform"]

\* str::strip_prefix followed by unwrap_or: one leading c is taken off
StripPrefix(s, c) == IF s # <<>> /\ Head(s) = c THEN Tail(s) ELSE s

\* the body the releases endpoint answers with
Asset(name, has_url, url) == [name |-> name, has_url |-> has_url, url |-> url]
AllAssets ==
    << Asset("mcmod-linux-x86_64", TRUE, "u1"), Asset("mcmod-macos-x86_64", TRUE, "u2"),
       Asset("mcmod-macos-aarch64", TRUE, "u3"), Asset("mcmod-windows-x86_64.exe", TRUE, "u4") >>
AssetLists ==
    { AllAssets, <<>>,
      << Asset("mcmod-linux-x86_64.tar.gz", TRUE, "u5"), Asset("mcmod-windows-x86_64.exe", TRUE, "u4") >>,
      << Asset("", TRUE, "u6"), Asset("mcmod-linux-x86_64", FALSE, "") >> }
Tags == { <<"v", "1.0">>, <<"1.0">>, <<"v", "2.0">>, <<"v", "v", "1.0">> }
Releases ==
    { [json |-> TRUE, has_tag |-> TRUE, tag |-> t, has_assets |-> TRUE, assets |-> a] :
        t \in Tags, a \in AssetLists }
    \cup { [json |-> TRUE, has_tag |-> FALSE, tag |-> <<>>, has_assets |-> TRUE, assets |-> AllAssets],
           [json |-> TRUE, has_tag |-> TRUE, tag |-> <<"v", "2.0">>, has_assets |-> FALSE, assets |-> <<>>],
           [json |-> FALSE, has_tag |-> FALSE, tag |-> <<>>, has_assets |-> FALSE, assets |-> <<>>] }

\* what the releases URL may answer to the second request of one run: the
\* manifest it answered to the first, or that of a release published since
LaterReleases ==
    { [json |-> TRUE, has_tag |-> TRUE, tag |-> <<"v", "3.0">>, has_assets |-> TRUE, assets |-> a] :
        a \in AssetLists }

SecondAnswers(release) == {release} \cup LaterReleases

\* update.rs 47-59, on the body the request has returned
FetchLatestVersion(release) ==
    IF ~release.json THEN [ret |-> "Err_Json", version |-> <<>>]
    ELSE IF ~release.has_tag THEN [ret |-> "Err_Other_no_tag", version |-> <<>>]
    ELSE [ret |-> "Ok", version |-> StripPrefix(release.tag, "v")]

\* update.rs 61-86, on the body the request has returned
FetchAssetUrl(release, asset_name) ==
    IF ~release.json THEN [ret |-> "Err_Json", url |-> ""]
    ELSE IF ~release.has_assets THEN [ret |-> "Err_Other_no_assets", url |-> ""]
    ELSE LET hits == {i \in 1..Len(release.assets) : release.assets[i].name = asset_name}
         IN  IF hits = {} THEN [ret |-> "Err_Other_no_asset", url |-> ""]
             ELSE LET i == CHOOSE i \in hits : \A j \in hits : i <= j
                  IN  IF release.assets[i].has_url
                      THEN [ret |-> "Ok", url |-> release.assets[i].url]
                      ELSE [ret |-> "Err_Other_no_url", url |-> ""]

\* (faulty variant) an equal version is not recognised
UpToDateNever(current_version, latest_version) == FALSE
\* update.rs 18
UpToDate(current_version, latest_version) == current_version = latest_version

\* the files beside the executable before the update: the executable, and
\* possibly what an earlier update left behind
InitFs(exe, left) ==
    LET a == Put(<<>>, exe, Original)
        b == IF "new" \in left THEN Put(a, TempPath(exe), Stale) ELSE a
    IN  IF "old" \in left THEN Put(b, OldPath(exe), Stale) ELSE b

\* `mcmod update` is started
InitUpdate ==
    /\ disk = [files |-> <<>>, dirs |-> {<<>>}]
    /\ pc = [p \in Procs |-> "idle"]
    /\ feature = [p \in Procs |-> "none"]
    /\ config = [p \in Procs |-> <<>>]
    /\ todo = [p \in Procs |-> <<>>]
    /\ cur = [p \in Procs |-> <<>>]
    /\ ret = [p \in Procs |-> "none"]
    /\ hist = [p \in Procs |-> [disk0 |-> disk, again |-> FALSE, log |-> <<>>,
                              loaded |-> FALSE, msg |-> <<>>,
                              prev |-> [failed |-> FALSE, disk0 |-> NoDisk],
                              overlap |-> FALSE]]
    /\ faults = 0
    /\ text = <<>>
    /\ applied = <<>>
    /\ prefs = NoPrefs
    /\ ini = NoInit
    /\ \E target \in Targets, exe \in CurrentExes, left \in SUBSET {"new", "old"},
          release \in Releases :
          upd = [pc |-> "fetch_version", os |-> target.os, arch |-> target.arch,
                 unix |-> IsUnix(target.os), exe |-> exe, release |-> release,
                 release2 |-> release,
                 latest |-> <<>>, asset |-> "", url |-> "", log |-> <<>>,
                 ret |-> "none", faults |-> 0,
                 fs |-> InitFs(exe, left), fs0 |-> InitFs(exe, left)]

KeepAddAndText ==
    UNCHANGED <<disk, pc, feature, config, todo, cur, ret, hist, faults, text, applied, prefs, ini>>

UpdAt(at) == upd.pc = at
UpdGo(to, fs) == upd' = [upd EXCEPT !.pc = to, !.fs = fs]
UpdReturn(result, fs) == upd' = [upd EXCEPT !.pc = "done", !.ret = result, !.fs = fs]
\* a file operation fails: nothing on the disk changes
UpdFault(to) ==
    /\ upd.faults < MaxUpdateFaults
    /\ upd' = [upd EXCEPT !.pc = to, !.faults = @ + 1]
UpdFaultReturn(result) ==
    /\ upd.faults < MaxUpdateFaults
    /\ upd' = [upd EXCEPT !.pc = "done", !.ret = result, !.faults = @ + 1]

\* update.rs 16: the manifest of the latest release is fetched and read
UpdFetchVersion ==
    /\ UpdAt("fetch_version")
    /\ \/ UpdFaultReturn("Err_Http")
       \/ LET r == FetchLatestVersion(upd.release)
          IN  IF r.ret = "Ok"
              THEN upd' = [upd EXCEPT !.pc = "compare", !.latest = r.version]
              ELSE UpdReturn(r.ret, upd.fs)
    /\ KeepAddAndText

\* update.rs 18-24
UpdCompare ==
    /\ UpdAt("compare")
    /\ IF UpToDate(CurrentVersion, upd.latest)
       THEN UpdReturn("UpToDate", upd.fs)
       ELSE UpdGo("asset_name", upd.fs)
    /\ KeepAddAndText

\* update.rs 31
UpdAssetName ==
    /\ UpdAt("asset_name")
    /\ LET r == GetAssetName(upd.os, upd.arch)
       IN  IF r.ok
           THEN upd' = [upd EXCEPT !.pc = "asset_url", !.asset = r.name,
                                   !.log = Append(@, "asset_name")]
           ELSE upd' = [upd EXCEPT !.pc = "done", !.ret = "Err_Other_unsupported",
                                   !.log = Append(@, "asset_name")]
    /\ KeepAddAndText

\* update.rs 32, 61-63: fetch_asset_url requests the manifest again and looks
\* the asset up in what that request returns (upd.release2)
UpdAssetUrl ==
    /\ UpdAt("asset_url")
    /\ \/ UpdFaultReturn("Err_Http")
       \/ \E release \in SecondAnswers(upd.release) :
             LET r == FetchAssetUrl(release, upd.asset)
             IN  IF r.ret = "Ok"
                 THEN upd' = [upd EXCEPT !.pc = "download", !.url = r.url,
                                         !.release2 = release]
                 ELSE upd' = [upd EXCEPT !.pc = "done", !.ret = r.ret,
                                         !.release2 = release]
    /\ KeepAddAndText

\* update.rs 35: the payload is requested and read
UpdDownload ==
    /\ UpdAt("download")
    /\ \/ /\ upd.faults < MaxUpdateFaults
          /\ upd' = [upd EXCEPT !.pc = "done", !.ret = "Err_Http", !.faults = @ + 1,
                                !.log = Append(@, "download")]
       \/ upd' = [upd EXCEPT !.pc = "start", !.log = Append(@, "download")]
    /\ KeepAddAndText

\* update.rs 37, 107-116: replace_binary picks the strategy of the platform
ReplaceBinary ==
    /\ UpdAt("start")
    /\ UpdGo(IF upd.unix THEN "u_open" ELSE "w_exists", upd.fs)
    /\ KeepAddAndText

\* update.rs 121: the temporary file is created or truncated
UnixOpenTemp ==
    /\ UpdAt("u_open")
    /\ \/ UpdGo("u_write", BinOpen(upd.fs, TempPath(upd.exe)))
       \/ UpdFaultReturn("Err_write")
    /\ KeepAddAndText

\* update.rs 121: the payload is written into it
UnixWriteTemp ==
    /\ UpdAt("u_write")
    /\ \/ UpdGo("u_chmod", BinWriteAll(upd.fs, TempPath(upd.exe), "new"))
       \/ UpdFaultReturn("Err_write")
    /\ KeepAddAndText

\* update.rs 124-128
UnixChmod ==
    /\ UpdAt("u_chmod")
    /\ \/ UpdGo("u_rename", SetPermissions(upd.fs, TempPath(upd.exe), "0755"))
       \/ UpdFaultReturn("Err_chmod")
    /\ KeepAddAndText

\* update.rs 131-133
UnixRename ==
    /\ UpdAt("u_rename")
    /\ \/ UpdReturn("Ok", Rename(upd.fs, TempPath(upd.exe), upd.exe))
       \/ UpdFaultReturn("Err_rename")
    /\ KeepAddAndText

\* update.rs 140-142: a backup left by an earlier update is removed, and a
\* failure to remove it is ignored
WinRemoveOld ==
    /\ UpdAt("w_exists")
    /\ IF Exists(upd.fs, OldPath(upd.exe))
       THEN \/ UpdGo("w_rename", Unlink(upd.fs, OldPath(upd.exe)))
            \/ UpdFault("w_rename")
       ELSE UpdGo("w_rename", upd.fs)
    /\ KeepAddAndText

\* update.rs 145: the running executable is moved to the backup path
WinRenameAway ==
    /\ UpdAt("w_rename")
    /\ \/ UpdGo("w_open", Rename(upd.fs, upd.exe, OldPath(upd.exe)))
       \/ UpdFaultReturn("Err_rename")
    /\ KeepAddAndText

\* update.rs 148: the file at the original path is created
WinOpenNew ==
    /\ UpdAt("w_open")
    /\ \/ UpdGo("w_write", BinOpen(upd.fs, upd.exe))
       \/ UpdFault("w_restore")
    /\ KeepAddAndText

\* update.rs 148: the payload is written into it
WinWriteNew ==
    /\ UpdAt("w_write")
    /\ \/ UpdGo("w_remove", BinWriteAll(upd.fs, upd.exe, "new"))
       \/ UpdFault("w_restore")
    /\ KeepAddAndText

\* update.rs 150-151: the backup is renamed back, the result of the rename is
\* dropped, and the error of the write is returned
WinRestore ==
    /\ UpdAt("w_restore")
    /\ \/ UpdReturn("Err_write", Rename(upd.fs, OldPath(upd.exe), upd.exe))
       \/ UpdFaultReturn("Err_write")
    /\ KeepAddAndText

\* update.rs 155-157: the backup is removed, and a failure is ignored
WinRemoveBackup ==
    /\ UpdAt("w_remove")
    /\ \/ UpdReturn("Ok", Unlink(upd.fs, OldPath(upd.exe)))
       \/ UpdFaultReturn("Ok")
    /\ KeepAddAndText

\* the process is killed between two file operations
UpdKill ==
    /\ upd.pc \notin {"done", "killed"}
    /\ upd' = [upd EXCEPT !.pc = "killed"]
    /\ KeepAddAndText

NextUpdate ==
    \/ UpdFetchVersion
    \/ UpdCompare
    \/ UpdAssetName
    \/ UpdAssetUrl
    \/ UpdDownload
    \/ ReplaceBinary
    \/ UnixOpenTemp
    \/ UnixWriteTemp
    \/ UnixChmod
    \/ UnixRename
    \/ WinRemoveOld
    \/ WinRenameAway
    \/ WinOpenNew
    \/ WinWriteNew
    \/ WinRestore
    \/ WinRemoveBackup
    \/ UpdKill

SpecUpdate == InitUpdate /\ [][NextUpdate]_vars

\* the strategy for Unix has been run, and has returned or been killed
UnixRun == upd.pc # "off" /\ upd.unix
WinRun == upd.pc # "off" /\ ~upd.unix
Returned(result) == upd.pc = "done" /\ upd.ret = result

\* C18: when replace_binary_unix returns Ok, the executable path exists, has
\* mode 0755 and holds the downloaded payload, and the temporary path beside
\* it does not exist any more.
C18_UnixOkInstalls ==
    (UnixRun /\ Returned("Ok"))
    => /\ Exists(upd.fs, upd.exe)
       /\ upd.fs[upd.exe] = BinFile("new", "0755")
       /\ ~Exists(upd.fs, TempPath(upd.exe))

\* the update has gone through over a temporary file left by an earlier one
C18_Witness ==
    /\ UnixRun /\ Returned("Ok")
    /\ upd.fs[upd.exe] = BinFile("new", "0755")
    /\ Exists(upd.fs, OldPath(upd.exe))
    /\ ~Exists(upd.fs, TempPath(upd.exe))

\* C19: in every state of replace_binary_unix, and in the state a failure or
\* a kill at any step leaves, the executable path exists and holds the whole
\* original binary or the whole payload, with mode 0755: it is never missing
\* and never holds a part of a file.
C19_UnixNeverBroken ==
    UnixRun
    => /\ Exists(upd.fs, upd.exe)
       /\ upd.fs[upd.exe] \in {Original, BinFile("new", "0755")}

\* the write of the temporary file has failed half way: the part is beside
\* the executable, which is the original one
C19_Witness ==
    /\ UnixRun /\ Returned("Err_write")
    /\ Exists(upd.fs, TempPath(upd.exe))
    /\ upd.fs[TempPath(upd.exe)].content = "partial"
    /\ upd.fs[upd.exe] = Original

\* C20: when the write of the payload at the original path fails in
\* replace_binary_windows, the function returns the error of the write, and
\* on return the original binary is at the original path and the backup path
\* does not exist.
C20_WindowsRollsBack ==
    (WinRun /\ Returned("Err_write"))
    => /\ Exists(upd.fs, upd.exe)
       /\ upd.fs[upd.exe] = Original
       /\ ~Exists(upd.fs, OldPath(upd.exe))

\* C21: when replace_binary_windows returns Ok, the original path holds the
\* new payload and nothing else, and the backup path does not exist, whether
\* or not a backup left by an earlier attempt was there at the call.
C21_WindowsOkInstalls ==
    (WinRun /\ Returned("Ok"))
    => /\ Exists(upd.fs, upd.exe)
       /\ upd.fs[upd.exe].content = "new"
       /\ ~Exists(upd.fs, OldPath(upd.exe))

\* the release read by the run carries a tag that is the current version
\* once one leading v, if there is one, is taken off
TagIsCurrent ==
    /\ upd.pc # "off"
    /\ upd.release.json /\ upd.release.has_tag
    /\ LET tag == upd.release.tag
       IN  (IF tag # <<>> /\ tag[1] = "v" THEN SubSeq(tag, 2, Len(tag)) ELSE tag)
             = CurrentVersion

\* C22: when the tag of the latest release, one optional leading v taken
\* off, is the current version, update returns success without working out
\* an asset name, without downloading and without touching the executable;
\* the executable is replaced only in runs in which the versions differ.
C22_UpToDateStops ==
    /\ TagIsCurrent
       => /\ upd.pc \in {"fetch_version", "compare", "done", "killed"}
          /\ (upd.pc = "done" /\ upd.ret # "Err_Http") => upd.ret = "UpToDate"
          /\ upd.log = <<>>
          /\ upd.fs = upd.fs0
    /\ (upd.pc # "off" /\ upd.fs # upd.fs0) => ~TagIsCurrent

\* an up-to-date run has returned beside the leftovers of an earlier update
C22_Witness ==
    /\ TagIsCurrent /\ upd.release.tag = <<"v", "1.0">>
    /\ Returned("UpToDate")
    /\ upd.log = <<>>
    /\ Exists(upd.fs, TempPath(upd.exe))
    /\ upd.fs = upd.fs0

\* the errors run returns before it reaches replace_binary
EarlyErrors ==
    {"Err_Http", "Err_Json", "Err_Other_no_tag", "Err_Other_unsupported",
     "Err_Other_no_assets", "Err_Other_no_asset", "Err_Other_no_url"}

\* the pair of the build is not one of the four of the asset table
UnsupportedTarget ==
    <<upd.os, upd.arch>> \notin { <<"linux", "x86_64">>, <<"macos", "x86_64">>,
                                  <<"macos", "aarch64">>, <<"windows", "x86_64">> }

\* an asset name has been computed and the manifest lists no asset of that name
NoMatchingAsset ==
    /\ upd.asset # ""
    /\ upd.release2.json
    /\ \A i \in 1..Len(upd.release2.assets) : upd.release2.assets[i].name # upd.asset

NothingDownloaded == \A i \in 1..Len(upd.log) : upd.log[i] # "download"

\* C23 as stated: if the pair is not in the asset table, or the manifest has
\* no asset of the computed name, or a network call fails, update returns an
\* error, without a download in the first two cases and in all of them
\* without touching a file at or next to the executable path.
C23_FailureLeavesBinary ==
    upd.pc = "done"
    => /\ (UnsupportedTarget \/ NoMatchingAsset)
          => (upd.ret \in EarlyErrors /\ NothingDownloaded /\ upd.fs = upd.fs0)
       /\ upd.ret = "Err_Http" => upd.fs = upd.fs0

\* C23, amended: in these cases update returns an error, or success when the
\* release is the current version already (the pair is looked up only after
\* the versions have been compared); nothing is downloaded in the first two
\* cases, and no file at or next to the executable path is touched in any.
C23_FailureLeavesBinaryUnlessCurrent ==
    upd.pc = "done"
    => /\ (UnsupportedTarget \/ NoMatchingAsset)
          => /\ upd.ret \in EarlyErrors \cup {"UpToDate"}
             /\ upd.ret = "UpToDate" => TagIsCurrent
             /\ NothingDownloaded
             /\ upd.fs = upd.fs0
       /\ upd.ret \in EarlyErrors => upd.fs = upd.fs0

\* a build for a pair outside the table has found a newer release and failed
C23_Witness ==
    /\ UnsupportedTarget
    /\ Returned("Err_Other_unsupported")
    /\ upd.log = <<"asset_name">>
    /\ upd.latest = <<"2.0">>
    /\ upd.fs = upd.fs0

\* a file that is the whole original binary or the whole new payload
Complete(fs, path) == Exists(fs, path) /\ fs[path].content \in {"original", "new"}

\* C32: in every state of replace_binary_windows, the states left by a kill
\* and by the failure of a file operation included, the original path or the
\* backup path holds the complete original binary or the complete payload.
C32_WindowsKeepsAProgram ==
    WinRun => (Complete(upd.fs, upd.exe) \/ Complete(upd.fs, OldPath(upd.exe)))

\* the write of the payload has failed half way and the process has been
\* killed before the backup was renamed back
C32_Witness ==
    /\ WinRun
    /\ ~Exists(upd.fs0, OldPath(upd.exe))
    /\ upd.pc = "killed" /\ upd.faults = 1
    /\ Exists(upd.fs, upd.exe) /\ Exists(upd.fs, OldPath(upd.exe))
    /\ upd.fs[upd.exe].content = "partial"
    /\ upd.fs[OldPath(upd.exe)] = Original

\* a download location has been resolved
UrlResolved == upd.pc # "off" /\ upd.url # ""

\* C31: in one run of update the download location comes from the manifest
\* whose tag was compared with the current version, so the payload installed
\* belongs to the version the run reports, also when the latest release
\* changes while the run is under way.
C31_SingleManifest ==
    UrlResolved
    => /\ upd.release2 = upd.release
       /\ FetchLatestVersion(upd.release2).version = upd.latest

ValidFeatures == {"fabric", "neoforge", "ci", "kotlin"}

\* C24: add with a name that is none of fabric, neoforge, ci and kotlin fails
\* with an Other error whose text lists the four valid features; the
\* descriptor is not loaded and no file is created or modified.
C24_UnknownFeature ==
    (pc[1] = "done" /\ feature[1] \notin ValidFeatures)
    => /\ ret[1] = "Other"
       /\ \A f \in ValidFeatures : InSeq(f, hist[1].msg)
       /\ ~hist[1].loaded
       /\ hist[1].log = <<>>
       /\ disk = hist[1].disk0

\* add forge has failed on a project that has the descriptor
C24_Witness ==
    /\ pc[1] = "done" /\ feature[1] = "forge"
    /\ ret[1] = "Other"
    /\ InSeq("forge", hist[1].msg)
    /\ PathExists(disk, ConfigPath(ProjectDir))

\* C25: when mcmod.toml is absent from the project directory,
\* McmodConfig::load fails with ConfigNotFound, and so add of each of the
\* four features fails with ConfigNotFound without creating or modifying a
\* file.
C25_MissingDescriptor ==
    /\ ~PathExists(disk, ConfigPath(ProjectDir)) => LoadConfig(disk, ProjectDir) = <<>>
    /\ (pc[1] = "done" /\ feature[1] \in ValidFeatures
        /\ ~PathExists(hist[1].disk0, ConfigPath(ProjectDir)))
       => /\ ret[1] = "ConfigNotFound"
          /\ hist[1].loaded
          /\ hist[1].log = <<>>
          /\ disk = hist[1].disk0

\* add kotlin has failed on a project without descriptor
C25_Witness ==
    /\ pc[1] = "done" /\ feature[1] = "kotlin"
    /\ ret[1] = "ConfigNotFound"
    /\ ~PathExists(disk, ConfigPath(ProjectDir))
    /\ PathExists(disk, SettingsPath(ProjectDir))

(***************************************************************************)
(* global_config.rs and commands/config.rs: the global preferences         *)
(***************************************************************************)
\* Option<T>: <<>> is None and <<v>> is Some(v); a value is kept as the
\* text toml writes for it
None == <<>>
Some(v) == <<v>>

GroupNames == {"defaults", "options", "gamerules"}

\* global_config.rs 17-49: the fields of the three groups with the TOML type
\* each is read from
FieldTypes ==
    [defaults |-> [author |-> "str", language |-> "str"],
     options |-> [fullscreen |-> "bool", pause_on_lost_focus |-> "bool",
                  auto_jump |-> "bool", reduced_debug_info |-> "bool", gamma |-> "num"],
     gamerules |-> [do_daylight_cycle |-> "bool", do_weather_cycle |-> "bool",
                    time_of_day |-> "str"]]

\* (faulty variant) every field of a defaulted group is unset
GroupUnset(name) == [k \in DOMAIN FieldTypes[name] |-> None]
\* Default of GlobalDefaults (derived), ClientOptions (32-42) and
\* GameRuleDefaults (51-59)
GroupDefault(name) ==
    CASE name = "defaults" -> [author |-> None, language |-> None]
      [] name = "options" ->
            [fullscreen |-> Some("true"), pause_on_lost_focus |-> Some("false"),
             auto_jump |-> Some("false"), reduced_debug_info |-> Some("false"),
             gamma |-> None]
      [] name = "gamerules" ->
            [do_daylight_cycle |-> Some("false"), do_weather_cycle |-> Some("false"),
             time_of_day |-> Some("noon")]

\* GlobalConfig::default (derived)
GlobalConfigDefault == [name \in GroupNames |-> GroupDefault(name)]

\* a value of a TOML document with its type
TV(t, v) == [t |-> t, v |-> v]
EmptyDoc == [name \in {} |-> ""]

\* serde: a table is read into a group when each known key has the type of
\* its field; unknown keys are skipped
GroupParses(g, name) ==
    \A k \in DOMAIN g \cap DOMAIN FieldTypes[name] : g[k].t = FieldTypes[name][k]

GroupFrom(g, name) ==
    [k \in DOMAIN FieldTypes[name] |-> IF k \in DOMAIN g THEN Some(g[k].v) ELSE None]

\* toml::from_str::<GlobalConfig>, with #[serde(default)] on the three
\* groups (7-15): <<>> stands for Err
FromPrefsToml(doc) ==
    IF \E name \in DOMAIN doc \cap GroupNames : ~GroupParses(doc[name], name)
    THEN <<>>
    ELSE <<[name \in GroupNames |->
              IF name \in DOMAIN doc THEN GroupFrom(doc[name], name)
              ELSE GroupDefault(name)]>>

\* toml::to_string_pretty: the three tables, a field that is None left out
ToPrefsToml(c) ==
    [name \in GroupNames |->
       [k \in {k \in DOMAIN c[name] : c[name][k] # None} |->
          TV(FieldTypes[name][k], c[name][k][1])]]

\* the preferences file: missing, not UTF-8, UTF-8 that is not TOML, or a
\* TOML document
PrefFile(kind, doc) == [kind |-> kind, doc |-> doc]

PrefFiles ==
    { PrefFile("missing", EmptyDoc), PrefFile("binary", EmptyDoc),
      PrefFile("garbage", EmptyDoc), PrefFile("toml", EmptyDoc),
      PrefFile("toml", [defaults |-> [author |-> TV("str", "TestAuthor"),
                                      language |-> TV("str", "java")]]),
      PrefFile("toml", [options |-> [fullscreen |-> TV("bool", "false"),
                                     gamma |-> TV("num", "1.5")]]),
      PrefFile("toml", [defaults |-> [author |-> TV("str", "TestAuthor")],
                        gamerules |-> [do_daylight_cycle |-> TV("bool", "true"),
                                       time_of_day |-> TV("str", "midnight")]]),
      PrefFile("toml", [options |-> [fullscreen |-> TV("str", "yes")]]),
      PrefFile("toml", [defaults |-> [language |-> TV("str", "kotlin")],
                        options |-> [auto_jump |-> TV("bool", "true")],
                        gamerules |-> [do_weather_cycle |-> TV("bool", "true")],
                        extra |-> [color |-> TV("str", "red")]]) }

\* GlobalConfig::load (88-98)
GlobalLoad(file) ==
    CASE file.kind = "missing" -> [ret |-> "Ok", config |-> GlobalConfigDefault]
      [] file.kind = "binary" -> [ret |-> "Err_Io", config |-> GlobalConfigDefault]
      [] file.kind = "garbage" -> [ret |-> "Ok", config |-> GlobalConfigDefault]
      [] file.kind = "toml" ->
            LET r == FromPrefsToml(file.doc)
            IN  [ret |-> "Ok", config |-> IF r = <<>> THEN GlobalConfigDefault ELSE r[1]]

\* normalize_key (246-266)
NormalizeKey(key) ==
    CASE key = "author" -> "defaults.author"
      [] key = "language" -> "defaults.language"
      [] key = "fullscreen" -> "options.fullscreen"
      [] key \in {"pauseOnLostFocus", "pause_on_lost_focus"} -> "options.pause_on_lost_focus"
      [] key \in {"autoJump", "auto_jump"} -> "options.auto_jump"
      [] key \in {"reducedDebugInfo", "reduced_debug_info"} -> "options.reduced_debug_info"
      [] key = "gamma" -> "options.gamma"
      [] key \in {"doDaylightCycle", "do_daylight_cycle"} -> "gamerules.do_daylight_cycle"
      [] key \in {"doWeatherCycle", "do_weather_cycle"} -> "gamerules.do_weather_cycle"
      [] key \in {"timeOfDay", "time_of_day"} -> "gamerules.time_of_day"
      [] OTHER -> key

\* the match arms of get and set: the group and the field of a dotted key,
\* <<>> for the default arm
KeyField(normalized) ==
    CASE normalized = "defaults.author" -> <<"defaults", "author">>
      [] normalized = "defaults.language" -> <<"defaults", "language">>
      [] normalized = "options.fullscreen" -> <<"options", "fullscreen">>
      [] normalized = "options.pause_on_lost_focus" -> <<"options", "pause_on_lost_focus">>
      [] normalized = "options.auto_jump" -> <<"options", "auto_jump">>
      [] normalized = "options.reduced_debug_info" -> <<"options", "reduced_debug_info">>
      [] normalized = "options.gamma" -> <<"options", "gamma">>
      [] normalized = "gamerules.do_daylight_cycle" -> <<"gamerules", "do_daylight_cycle">>
      [] normalized = "gamerules.do_weather_cycle" -> <<"gamerules", "do_weather_cycle">>
      [] normalized = "gamerules.time_of_day" -> <<"gamerules", "time_of_day">>
      [] OTHER -> <<>>

\* the keys and the values `config` is called with
PrefKeys ==
    {"author", "language", "auto_jump", "gamma", "timeOfDay",
     "options.fullscreen", "bogus"}
PrefValues ==
    {"Kotlin", "rust", "YES", "maybe", "0", "1.5", "abc", "NOON", "6000"}

\* str::to_lowercase on the values
ToLowercase(value) ==
    CASE value = "TestAuthor" -> "testauthor"
      [] value = "Kotlin" -> "kotlin"
      [] value = "YES" -> "yes"
      [] value = "NOON" -> "noon"
      [] OTHER -> value

\* str::parse::<f64> and str::parse::<u32> on the values
ParsesF64(value) == value \in {"0", "1.5", "6000"}
ParsesU32(value) == value \in {"0", "6000"}
\* f64 as toml writes it
F64Text(value) ==
    CASE value = "0" -> "0.0" [] value = "6000" -> "6000.0" [] OTHER -> value

\* parse_bool (269-277): <<>> stands for Err
ParseBool(value) ==
    CASE ToLowercase(value) \in {"true", "yes", "1"} -> Some("true")
      [] ToLowercase(value) \in {"false", "no", "0"} -> Some("false")
      [] OTHER -> None

\* validate_time_of_day (280-294)
ValidateTimeOfDay(value) ==
    \/ ToLowercase(value) \in {"noon", "day", "midnight", "night", "sunrise", "sunset"}
    \/ ParsesU32(value)

SetOk(c, field, v) == [ret |-> "Ok", config |-> [c EXCEPT ![field[1]][field[2]] = Some(v)], saved |-> TRUE]
SetErr(c) == [ret |-> "Other", config |-> c, saved |-> FALSE]

\* (faulty variant) the field is assigned before the value is checked
GlobalSetAssignFirst(c, key, value) ==
    LET field == KeyField(NormalizeKey(key))
    IN  IF field = <<>> THEN SetErr(c)
        ELSE [ret |-> "Other", config |-> SetOk(c, field, value).config, saved |-> FALSE]
\* GlobalConfig::set (130-180); the save at 179 is reached on Ok only
GlobalSet(c, key, value) ==
    LET field == KeyField(NormalizeKey(key))
    IN  CASE field = <<>> -> SetErr(c)
          [] field = <<"defaults", "author">> -> SetOk(c, field, value)
          [] field = <<"defaults", "language">> ->
                IF ToLowercase(value) \in {"java", "kotlin"}
                THEN SetOk(c, field, ToLowercase(value)) ELSE SetErr(c)
          [] field = <<"options", "gamma">> ->
                IF ParsesF64(value) THEN SetOk(c, field, F64Text(value)) ELSE SetErr(c)
          [] field = <<"gamerules", "time_of_day">> ->
                IF ValidateTimeOfDay(value)
                THEN SetOk(c, field, ToLowercase(value)) ELSE SetErr(c)
          [] OTHER ->
                IF ParseBool(value) # None
                THEN SetOk(c, field, ParseBool(value)[1]) ELSE SetErr(c)

\* GlobalConfig::get (112-127)
GlobalGet(c, key) ==
    LET field == KeyField(NormalizeKey(key))
    IN  IF field = <<>> THEN None ELSE c[field[1]][field[2]]

\* GlobalConfig::list (184-216)
GlobalList(c) ==
    LET display(v) == IF v = None THEN "(not set)" ELSE v[1]
    IN  << <<"Defaults", "author", display(c.defaults.author)>>,
           <<"Defaults", "language", display(c.defaults.language)>>,
           <<"Client Options", "fullscreen", display(c.options.fullscreen)>>,
           <<"Client Options", "pauseOnLostFocus", display(c.options.pause_on_lost_focus)>>,
           <<"Client Options", "autoJump", display(c.options.auto_jump)>>,
           <<"Client Options", "reducedDebugInfo", display(c.options.reduced_debug_info)>>,
           <<"Client Options", "gamma", display(c.options.gamma)>>,
           <<"Game Rules", "doDaylightCycle", display(c.gamerules.do_daylight_cycle)>>,
           <<"Game Rules", "doWeatherCycle", display(c.gamerules.do_weather_cycle)>>,
           <<"Game Rules", "timeOfDay", display(c.gamerules.time_of_day)>> >>

\* the `config` commands run one after the other
MaxCommands == 2

KeepAllButPrefs ==
    UNCHANGED <<disk, pc, feature, config, todo, cur, ret, hist, faults, text, applied, upd, ini>>

InitPrefs ==
    /\ disk = [files |-> <<>>, dirs |-> {<<>>}]
    /\ pc = [p \in Procs |-> "idle"]
    /\ feature = [p \in Procs |-> "none"]
    /\ config = [p \in Procs |-> <<>>]
    /\ todo = [p \in Procs |-> <<>>]
    /\ cur = [p \in Procs |-> <<>>]
    /\ ret = [p \in Procs |-> "none"]
    /\ hist = [p \in Procs |-> [disk0 |-> disk, again |-> FALSE, log |-> <<>>,
                              loaded |-> FALSE, msg |-> <<>>,
                              prev |-> [failed |-> FALSE, disk0 |-> NoDisk],
                              overlap |-> FALSE]]
    /\ faults = 0
    /\ text = <<>>
    /\ applied = <<>>
    /\ upd = NoUpdate
    /\ ini = NoInit
    /\ \E file \in PrefFiles : prefs = [n |-> 0, file |-> file, last |-> [cmd |-> "none"]]

\* what a command leaves to be looked at: the file it found, the result of
\* the load, the configuration before and after, its result and its output
Ran(cmd, key, value, load, result, mem, saved, out) ==
    [cmd |-> cmd, key |-> key, value |-> value, file0 |-> prefs.file, load |-> load.ret,
     mem0 |-> load.config, ret |-> result, mem |-> mem, saved |-> saved, out |-> out]

\* commands/config.rs 15-22
RunGet(key) ==
    /\ prefs.n < MaxCommands
    /\ LET load == GlobalLoad(prefs.file)
       IN  prefs' = [prefs EXCEPT !.n = @ + 1,
                       !.last = IF load.ret # "Ok"
                                THEN Ran("get", key, "", load, load.ret, load.config, FALSE, <<>>)
                                ELSE Ran("get", key, "", load, "Ok", load.config, FALSE,
                                         <<GlobalGet(load.config, key)>>)]
    /\ KeepAllButPrefs

\* commands/config.rs 24-47
RunList ==
    /\ prefs.n < MaxCommands
    /\ LET load == GlobalLoad(prefs.file)
       IN  prefs' = [prefs EXCEPT !.n = @ + 1,
                       !.last = IF load.ret # "Ok"
                                THEN Ran("list", "", "", load, load.ret, load.config, FALSE, <<>>)
                                ELSE Ran("list", "", "", load, "Ok", load.config, FALSE,
                                         GlobalList(load.config))]
    /\ KeepAllButPrefs

\* commands/config.rs 5-13, with the save of GlobalConfig::set (101-109)
RunSet(key, value) ==
    /\ prefs.n < MaxCommands
    /\ LET load == GlobalLoad(prefs.file)
           set == GlobalSet(load.config, key, value)
       IN  IF load.ret # "Ok"
           THEN prefs' = [prefs EXCEPT !.n = @ + 1,
                            !.last = Ran("set", key, value, load, load.ret, load.config, FALSE, <<>>)]
           ELSE prefs' = [n |-> prefs.n + 1,
                          file |-> IF set.saved THEN PrefFile("toml", ToPrefsToml(set.config))
                                   ELSE prefs.file,
                          last |-> Ran("set", key, value, load, set.ret, set.config, set.saved, <<>>)]
    /\ KeepAllButPrefs

NextPrefs ==
    \/ \E key \in PrefKeys : RunGet(key)
    \/ RunList
    \/ \E key \in PrefKeys, value \in PrefValues : RunSet(key, value)

SpecPrefs == InitPrefs /\ [][NextPrefs]_vars

\* a command has been run, and the last one found the preferences file
\* missing, not readable as text, or not readable as a GlobalConfig
FoundBadFile ==
    /\ prefs.n > 0
    /\ \/ prefs.last.file0.kind \in {"missing", "binary", "garbage"}
       \/ \E name \in DOMAIN prefs.last.file0.doc \cap GroupNames :
             ~GroupParses(prefs.last.file0.doc[name], name)

\* C26: GlobalConfig::load returns the structural defaults, and no error,
\* whenever the preferences file is missing, cannot be read as text or
\* cannot be parsed; config get and config list succeed in all these cases.
C26_LoadNeverFails ==
    FoundBadFile
    => /\ prefs.last.load = "Ok"
       /\ prefs.last.mem0 = GlobalConfigDefault
       /\ prefs.last.cmd \in {"get", "list"} => prefs.last.ret = "Ok"

\* the last command found a TOML document whose groups are well typed
FoundDocument == prefs.n > 0 /\ prefs.last.file0.kind = "toml" /\ ~FoundBadFile

\* C27: a preferences file with only some of the groups defaults, options
\* and gamerules, the empty file included, is read without error; every
\* value of a group that is present is kept, and an absent group gets its
\* structural default (options: fullscreen true, pause_on_lost_focus,
\* auto_jump and reduced_debug_info false, gamma unset; gamerules:
\* do_daylight_cycle and do_weather_cycle false, time_of_day noon).
C27_SchemaGrowth ==
    FoundDocument
    => LET doc == prefs.last.file0.doc
           c == prefs.last.mem0
       IN  /\ prefs.last.load = "Ok"
           /\ \A name \in GroupNames \cap DOMAIN doc : \A k \in DOMAIN c[name] :
                 c[name][k] = IF k \in DOMAIN doc[name] THEN <<doc[name][k].v>> ELSE <<>>
           /\ "defaults" \notin DOMAIN doc
              => c.defaults = [author |-> <<>>, language |-> <<>>]
           /\ "options" \notin DOMAIN doc
              => c.options = [fullscreen |-> <<"true">>, pause_on_lost_focus |-> <<"false">>,
                              auto_jump |-> <<"false">>, reduced_debug_info |-> <<"false">>,
                              gamma |-> <<>>]
           /\ "gamerules" \notin DOMAIN doc
              => c.gamerules = [do_daylight_cycle |-> <<"false">>,
                                do_weather_cycle |-> <<"false">>,
                                time_of_day |-> <<"noon">>]

\* a file of the old schema, with the group defaults alone, has been read
C27_Witness ==
    /\ FoundDocument
    /\ DOMAIN prefs.last.file0.doc = {"defaults"}
    /\ prefs.last.mem0.defaults.author = <<"TestAuthor">>
    /\ prefs.last.mem0.options.auto_jump = <<"false">>
    /\ prefs.last.mem0.gamerules.do_weather_cycle = <<"false">>

\* the last command was a set that GlobalConfig::set has to reject
RejectedSet ==
    /\ prefs.n > 0
    /\ prefs.last.cmd = "set"
    /\ prefs.last.load = "Ok"
    /\ LET field == KeyField(NormalizeKey(prefs.last.key))
           lower == ToLowercase(prefs.last.value)
       IN  \/ field = <<>>
           \/ field = <<"defaults", "language">> /\ lower \notin {"java", "kotlin"}
           \/ /\ field # <<>>
              /\ FieldTypes[field[1]][field[2]] = "bool"
              /\ lower \notin {"true", "false", "yes", "no", "1", "0"}
           \/ field = <<"options", "gamma">> /\ ~ParsesF64(prefs.last.value)
           \/ /\ field = <<"gamerules", "time_of_day">>
              /\ lower \notin {"noon", "day", "midnight", "night", "sunrise", "sunset"}
              /\ ~ParsesU32(prefs.last.value)

\* C28: GlobalConfig::set with an unknown key, an invalid language, an
\* invalid boolean, a gamma that is not a number or an invalid time of day
\* returns an error, leaves every field of the configuration in memory as
\* it was and does not write the preferences file.
C28_RejectedSetChangesNothing ==
    RejectedSet
    => /\ prefs.last.ret = "Other"
       /\ prefs.last.mem = prefs.last.mem0
       /\ ~prefs.last.saved
       /\ prefs.file = prefs.last.file0

\* a set of language to rust has been rejected after an earlier set was saved
C28_Witness ==
    /\ RejectedSet
    /\ prefs.n = 2
    /\ prefs.last.key = "language" /\ prefs.last.value = "rust"
    /\ prefs.last.ret = "Other"
    /\ prefs.file.kind = "toml"
    /\ "gamma" \in DOMAIN prefs.file.doc.options

\* the descriptors at stake when a handler is about to save: the one it has
\* loaded, and that one with the flag of a feature set
DescriptorsInPlay ==
    IF config[1] # <<>> /\ todo[1] # <<>> /\ Head(todo[1]).op = "save"
    THEN {config[1][1]} \cup {FlipFlag(config[1][1], f) : f \in ValidFeatures}
    ELSE {}

PatchSteps(f, c) ==
    SelectSeq(StepsOf(f, ProjectDir, c),
              LAMBDA op : op.op \in {"include", "platform", "setprop", "save"})

\* add(F) from the disk d0 passes the head of its handler
WouldRun(d0, f) ==
    /\ LoadConfig(d0, ProjectDir) # <<>>
    /\ ~GuardOf(f, LoadConfig(d0, ProjectDir)[1])

\* the three files after one add(F) from d0 with no operation failing
Uninterrupted(d0, f) ==
    LET c0 == LoadConfig(d0, ProjectDir)[1]
    IN  Patched(ApplyOps(d0, ProjectDir, PatchSteps(f, c0), FlipFlag(c0, f)))

\* add(F) failed or was killed before its save, and the add(F) started right
\* after it has returned without a failure of its own
RerunDone ==
    /\ pc[1] = "done"
    /\ feature[1] \in ValidFeatures
    /\ hist[1].prev.failed
    /\ ret[1] # "Io"
    /\ WouldRun(hist[1].prev.disk0, feature[1])

\* C30: when add(F) stops before the descriptor is saved and add(F) is run
\* again to its end with no failure, the second run succeeds and the
\* descriptor, settings.gradle and gradle.properties are those of one
\* uninterrupted add(F) from the state before the first run.
C30_RerunConverges ==
    RerunDone
    => /\ ret[1] = "Ok"
       /\ Patched(disk) = Uninterrupted(hist[1].prev.disk0, feature[1])

(***************************************************************************)
(* The source trees after a sequence of adds                               *)
(***************************************************************************)
\* the modules of a project: common, and each loader whose flag is true
EnabledModules(c) ==
    {"common"} \cup {m \in {"fabric", "neoforge"} : c.loaders[m]}

\* the primary source file of a module in the tree of a language: the path
\* write_common_module, add_fabric_files and add_neoforge_files write to
PrimarySource(module, c, language) ==
    LET k == SourceKind(language)
        package_path == PackageToPath(c.mod_info.package)
        class_name == DeriveClassName(c.mod_info.mod_id)
        sub == CASE module = "common" -> <<>>
                 [] module = "fabric" -> <<"/", "fabric">>
                 [] module = "neoforge" -> <<"/", "neoforge">>
        suffix == CASE module = "common" -> <<>>
                    [] module = "fabric" -> <<"Fabric">>
                    [] module = "neoforge" -> <<"NeoForge">>
    IN  PathJoin(ProjectDir, <<module, "/", "src", "/", "main", "/",
                               k.source_dir, "/">>
                             \o package_path \o sub \o SLASH
                             \o class_name \o suffix \o <<".", k.ext>>)

OtherLanguage(language) ==
    IF language = <<"kotlin">> THEN <<"java">> ELSE <<"kotlin">>

\* no add is running, and every add so far has returned Ok or was turned
\* down before it touched a file
AddsAllEnded ==
    /\ pc[1] \in {"idle", "done"}
    /\ faults = 0
    /\ LoadConfig(disk, ProjectDir) # <<>>

\* C37: after any sequence of adds on a project made by init, each of which
\* has succeeded or was rejected by its guard, every enabled module (common
\* and each loader whose flag is true) has its primary source file in the
\* tree of the descriptor's language and none in the other language's tree,
\* in whatever order the loaders and kotlin were added.
C37_LanguageTreeConsistent ==
    AddsAllEnded
    => LET c == LoadConfig(disk, ProjectDir)[1]
       IN  \A m \in EnabledModules(c) :
              /\ PrimarySource(m, c, c.mod_info.language) \in DOMAIN disk.files
              /\ PrimarySource(m, c, OtherLanguage(c.mod_info.language))
                    \notin DOMAIN disk.files

\* neoforge has just been added to a project that was migrated to kotlin
\* while it had fabric only
C37_Witness ==
    /\ AddsAllEnded
    /\ pc[1] = "done" /\ ret[1] = "Ok" /\ feature[1] = "neoforge"
    /\ LET c == LoadConfig(disk, ProjectDir)[1]
       IN  /\ c.mod_info.language = <<"kotlin">>
           /\ c.loaders.fabric /\ c.loaders.neoforge
           /\ PrimarySource("neoforge", c, <<"kotlin">>) \in DOMAIN disk.files
           /\ PrimarySource("fabric", c, <<"kotlin">>) \in DOMAIN disk.files

(***************************************************************************)
(* What a successful add leaves of the descriptor                          *)
(***************************************************************************)
\* add(F) has returned Ok
AddSucceeded ==
    /\ pc[1] = "done"
    /\ ret[1] = "Ok"
    /\ feature[1] \in ValidFeatures

\* the descriptor c differs from c0 in nothing but the field of feature f
OnlyFieldOf(f, c0, c) ==
    /\ c.versions = c0.versions
    /\ f # "fabric" => c.loaders.fabric = c0.loaders.fabric
    /\ f # "neoforge" => c.loaders.neoforge = c0.loaders.neoforge
    /\ f # "ci" => c.features.ci = c0.features.ci
    /\ IF f = "kotlin"
       THEN [c.mod_info EXCEPT !.language = c0.mod_info.language] = c0.mod_info
       ELSE c.mod_info = c0.mod_info

\* C38: a successful add(F) changes in the saved descriptor only the field
\* of F (loaders.fabric, loaders.neoforge, features.ci, or the language for
\* kotlin): every other flag, every identity field and every version string
\* is as it was before the call; and add(ci) leaves settings.gradle and
\* gradle.properties as they were.
C38_AddDescriptorFrame ==
    AddSucceeded
    => /\ OnlyFieldOf(feature[1], LoadConfig(hist[1].disk0, ProjectDir)[1],
                      LoadConfig(disk, ProjectDir)[1])
       /\ feature[1] = "ci"
          => /\ disk.files[SettingsPath(ProjectDir)]
                  = hist[1].disk0.files[SettingsPath(ProjectDir)]
             /\ disk.files[PropertiesPath(ProjectDir)]
                  = hist[1].disk0.files[PropertiesPath(ProjectDir)]

\* add(ci) has succeeded on a project with neoforge that had no CI
C38_Witness ==
    /\ AddSucceeded
    /\ feature[1] = "ci"
    /\ ~HasFeature(hist[1].disk0, "ci")
    /\ HasFeature(hist[1].disk0, "neoforge")
    /\ HasFeature(disk, "ci")
    /\ HasFeature(disk, "neoforge")

(***************************************************************************)
(* commands/init.rs: one run of `init` on a directory                      *)
(***************************************************************************)
\* the --loader arguments: none, the two loaders, another name, a name twice
LoaderLists ==
    { <<>>, <<Txt("fabric")>>, <<Txt("neoforge")>>,
      <<Txt("fabric"), Txt("neoforge")>>, <<Txt("forge")>>,
      <<Txt("fabric"), Txt("fabric")>>, <<Txt("neoforge"), Txt("forge")>> }

\* what prompt_multiselect may return
MultiselectAnswers == { <<>>, <<Txt("fabric")>>, <<Txt("fabric"), Txt("neoforge")>> }

\* init.rs 80-86: the loaders init goes on with
InitLoaders(args) ==
    IF args.loaders # <<>> THEN args.loaders
    ELSE IF args.interactive THEN args.picked
    ELSE <<Txt("fabric"), Txt("neoforge")>>

\* the arguments and answers of one run; the answer to the loader prompt
\* counts only when the prompt is shown
InitArgs ==
    { a \in [loaders : LoaderLists, interactive : BOOLEAN, picked : MultiselectAnswers,
             ci : BOOLEAN, language : {<<"java">>, <<"kotlin">>}, shape : {1, 2}] :
        (a.loaders # <<>> \/ ~a.interactive) => a.picked = <<>> }

\* the values gathered at init.rs 32-101
Gathered(args) ==
    [mod_id |-> <<"m", "_", "y">>, package |-> <<"com", ".", "my">>,
     language |-> args.language, loaders |-> InitLoaders(args), ci |-> args.ci,
     shape |-> args.shape]

\* init.rs 88-92
NoLoaderMessage == <<"At least one loader must be selected">>

\* the directories init is run on: one that does not exist yet, and two
\* that hold a project an earlier init has made
EarlierInits ==
    { [mod_id |-> <<"m", "_", "y">>, package |-> <<"com", ".", "my">>,
       language |-> <<"kotlin">>, loaders |-> <<Txt("neoforge")>>, ci |-> TRUE,
       shape |-> 1],
      [mod_id |-> <<"m", "_", "y">>, package |-> <<"com", ".", "my">>,
       language |-> <<"java">>, loaders |-> <<Txt("fabric"), Txt("neoforge")>>,
       ci |-> FALSE, shape |-> 2] }

InitDirs ==
    { [files |-> <<>>, dirs |-> {<<>>}] } \cup { InitRun(o) : o \in EarlierInits }

InitInit ==
    /\ disk = [files |-> <<>>, dirs |-> {<<>>}]
    /\ pc = [p \in Procs |-> "idle"]
    /\ feature = [p \in Procs |-> "none"]
    /\ config = [p \in Procs |-> <<>>]
    /\ todo = [p \in Procs |-> <<>>]
    /\ cur = [p \in Procs |-> <<>>]
    /\ ret = [p \in Procs |-> "none"]
    /\ hist = [p \in Procs |-> [disk0 |-> disk, again |-> FALSE, log |-> <<>>,
                              loaded |-> FALSE, msg |-> <<>>,
                              prev |-> [failed |-> FALSE, disk0 |-> NoDisk],
                              overlap |-> FALSE]]
    /\ faults = 0
    /\ text = <<>>
    /\ applied = <<>>
    /\ upd = NoUpdate
    /\ prefs = NoPrefs
    /\ \E d \in InitDirs : ini = [pc |-> "idle", disk |-> d]

KeepAllButInit ==
    UNCHANGED <<disk, pc, feature, config, todo, cur, ret, hist, faults, text, applied, upd, prefs>>

\* init.rs 24-131: the inputs are gathered, the loader guard is checked and
\* the project directory is made
InitEnter ==
    /\ ini.pc = "idle"
    /\ \E args \in InitArgs :
          ini' = IF InitLoaders(args) = <<>>
                 THEN [pc |-> "done", disk |-> ini.disk, disk0 |-> ini.disk,
                       args |-> args, ret |-> "Other", msg |-> NoLoaderMessage,
                       todo |-> <<>>]
                 ELSE [pc |-> "run", disk |-> EnsureDir(ini.disk, ProjectDir),
                       disk0 |-> ini.disk, args |-> args, ret |-> "none",
                       msg |-> <<>>, todo |-> InitOps(Gathered(args))]
    /\ KeepAllButInit

\* init.rs 136-178: the next file operation of init succeeds
InitStep ==
    /\ ini.pc = "run"
    /\ ini.todo # <<>>
    /\ ini' = [ini EXCEPT
                 !.disk = ApplyOp(@, ProjectDir, Head(ini.todo),
                                  InitConfig(Gathered(ini.args))),
                 !.todo = Tail(@)]
    /\ KeepAllButInit

\* the next file operation of init fails: the `?` returns the error
InitFail ==
    /\ ini.pc = "run"
    /\ ini.todo # <<>>
    /\ ini' = [ini EXCEPT !.pc = "done", !.ret = "Io", !.todo = <<>>]
    /\ KeepAllButInit

\* init.rs 201: Ok(())
InitReturn ==
    /\ ini.pc = "run"
    /\ ini.todo = <<>>
    /\ ini' = [ini EXCEPT !.pc = "done", !.ret = "Ok"]
    /\ KeepAllButInit

NextInit ==
    \/ InitEnter
    \/ InitStep
    \/ InitFail
    \/ InitReturn

SpecInit == InitInit /\ [][NextInit]_vars

\* init has returned; the descriptor the directory held, and holds now
InitDone == ini.pc = "done"
DescriptorBefore == LoadConfig(ini.disk0, ProjectDir)
DescriptorAfter == LoadConfig(ini.disk, ProjectDir)

\* C33: init in a directory that holds a descriptor never turns a loader
\* flag or the ci flag that is true in it into false, and never changes the
\* language kotlin back to java.
C33_InitKeepsFlags ==
    (InitDone /\ DescriptorBefore # <<>> /\ DescriptorAfter # <<>>)
    => LET old == DescriptorBefore[1]
           new == DescriptorAfter[1]
       IN  /\ old.loaders.fabric => new.loaders.fabric
           /\ old.loaders.neoforge => new.loaders.neoforge
           /\ old.features.ci => new.features.ci
           /\ old.mod_info.language = <<"kotlin">> => new.mod_info.language = <<"kotlin">>

\* C34: for every list of loader names, init succeeds only if loaders.fabric
\* or loaders.neoforge is true in the descriptor it saves; otherwise it fails
\* with 'At least one loader must be selected' before it writes any file.
C34_InitLoaderGuard ==
    InitDone
    => /\ ini.ret = "Ok"
          => /\ DescriptorAfter # <<>>
             /\ DescriptorAfter[1].loaders.fabric \/ DescriptorAfter[1].loaders.neoforge
       /\ ~(HasFabric(InitLoaders(ini.args)) \/ HasNeoforge(InitLoaders(ini.args)))
          => /\ ini.ret = "Other"
             /\ ini.msg = NoLoaderMessage
             /\ ini.disk = ini.disk0

\* no element of a sequence occurs in it twice
NoRepeat(seq) == \A i, j \in 1..Len(seq) : seq[i] = seq[j] => i = j

\* C35: after a successful init the tokens of enabled_platforms are the
\* loaders whose flags are true in the saved descriptor, each of them once,
\* and settings.gradle has an include line for exactly those loaders among
\* fabric and neoforge.
C35_InitLockStep ==
    (InitDone /\ ini.ret = "Ok")
    => LET c == DescriptorAfter[1]
           tokens == EnabledTokens(ini.disk.files[PropertiesPath(ProjectDir)])
           flagged == EnabledPlatforms(c)
       IN  /\ {tokens[i] : i \in 1..Len(tokens)} = {flagged[i] : i \in 1..Len(flagged)}
           /\ NoRepeat(tokens)
           /\ \A l \in {Txt("fabric"), Txt("neoforge")} :
                 Contains(ini.disk.files[SettingsPath(ProjectDir)], IncludeLine(l))
                 <=> InSeq(l, flagged)

(***************************************************************************)
(* Two `add` processes on one project                                      *)
(***************************************************************************)
\* the projects two adds are run on: one with neoforge and no CI, and one
\* with neither loader flag (init --loader forge)
SharedProjects ==
    { [loaders |-> <<Txt("neoforge")>>, ci |-> FALSE, shape |-> 1, edit |-> "none"],
      [loaders |-> <<Txt("forge")>>, ci |-> FALSE, shape |-> 1, edit |-> "none"] }

InitTwo ==
    /\ \E sc \in SharedProjects : disk = InitRun(InitOptions(sc))
    /\ pc = [p \in Procs |-> "idle"]
    /\ feature = [p \in Procs |-> "none"]
    /\ config = [p \in Procs |-> <<>>]
    /\ todo = [p \in Procs |-> <<>>]
    /\ cur = [p \in Procs |-> <<>>]
    /\ ret = [p \in Procs |-> "none"]
    /\ hist = [p \in Procs |-> [disk0 |-> disk, again |-> FALSE, log |-> <<>>,
                              loaded |-> FALSE, msg |-> <<>>,
                              prev |-> [failed |-> FALSE, disk0 |-> NoDisk],
                              overlap |-> FALSE]]
    /\ faults = 0
    /\ text = <<>>
    /\ applied = <<>>
    /\ upd = NoUpdate
    /\ prefs = NoPrefs
    /\ ini = NoInit

\* each process runs one add, and the two ask for different features
InvokeOnce(p, f) ==
    /\ pc[p] = "idle"
    /\ \A q \in Procs \ {p} : feature[q] # f
    /\ Invoke(p, f)

\* the content a patcher has computed and is about to write
OpWriteBack(path, content, tag) ==
    [op |-> "write_back", path |-> path, content |-> content, tag |-> tag]

\* gradle.rs 8, 51, 81: read_to_string; the patcher computes the new content
\* from what it has read.  add_include_to_settings returns without writing
\* when the line is there (gradle.rs 12-14).
StepReadForPatch(p) ==
    /\ \/ Running(p, "include")
       \/ Running(p, "platform")
       \/ Running(p, "setprop")
    /\ LET op == Head(todo[p])
           path == IF op.op = "include" THEN SettingsPath(ProjectDir)
                   ELSE PropertiesPath(ProjectDir)
           tag == CASE op.op = "include" -> "include"
                    [] op.op = "platform" -> "enabled_platforms"
                    [] op.op = "setprop" -> op.key[1]
           after == ApplyOp(disk, ProjectDir, op, config[p][1])
       IN  IF path \notin DOMAIN disk.files
           THEN /\ Finish(p, "Io")
                /\ UNCHANGED <<feature, faults>>
           ELSE IF op.op = "include" /\ after = disk
           THEN Advance(p)
           ELSE /\ todo' = [todo EXCEPT ![p] =
                              <<OpWriteBack(path, after.files[path], tag)>> \o Tail(@)]
                /\ UNCHANGED <<pc, feature, config, cur, ret, faults>>
    /\ UNCHANGED <<disk, hist>>

\* gradle.rs 44, 74, 108: std::fs::write of the content computed from the
\* earlier read, whatever the file holds by now
StepWriteBack(p) ==
    /\ Running(p, "write_back")
    /\ LET op == Head(todo[p])
       IN  /\ disk' = PutFile(disk, op.path, op.content)
           /\ hist' = Logged(p, Event("write", op.path, op.tag))
    /\ Advance(p)

\* two adds at a time, their file operations interleaved in any order
NextTwo ==
    \/ (\E p \in Procs, f \in ValidFeatures : InvokeOnce(p, f)) /\ Quiet
    \/ (\E p \in Procs : RunAddFabric(p)) /\ Quiet
    \/ (\E p \in Procs : RunAddNeoforge(p)) /\ Quiet
    \/ (\E p \in Procs : RunAddCi(p)) /\ Quiet
    \/ (\E p \in Procs : RunAddKotlin(p)) /\ Quiet
    \/ (\E p \in Procs : StepWriteFile(p)) /\ Quiet
    \/ (\E p \in Procs : StepWriteIfAbsent(p)) /\ Quiet
    \/ (\E p \in Procs : StepReadForPatch(p)) /\ Quiet
    \/ (\E p \in Procs : StepWriteBack(p)) /\ Quiet
    \/ (\E p \in Procs : StepSave(p)) /\ Quiet
    \/ (\E p \in Procs : StepRemoveJava(p)) /\ Quiet
    \/ (\E p \in Procs : StepCleanup(p)) /\ Quiet
    \/ (\E p \in Procs : Return(p)) /\ Quiet

SpecTwo == InitTwo /\ [][NextTwo]_vars

\* both adds have reported success
BothSucceeded ==
    \A p \in Procs : pc[p] = "done" /\ ret[p] = "Ok"

\* the second add was started after the first had returned
OneAfterTheOther == \A p \in Procs : ~hist[p].overlap

\* the saved descriptor has the flag of each of the two features, and the
\* two files register each loader among them
BothRecorded ==
    \A p \in Procs :
        /\ HasFeature(disk, feature[p])
        /\ feature[p] \in {"fabric", "neoforge"} => Registered(disk, feature[p])

====
